---- MODULE Spec2Model ----
(***************************************************************************)
(* Model of the catalog synchronisation pipeline of                        *)
(* supabase/functions/sync-step-runner/index.ts (the step orchestrator and *)
(* its six steps) together with the client-side helpers utils/ean.ts and   *)
(* utils/pricing.ts.                                                       *)
(*                                                                         *)
(* Conventions.                                                            *)
(*  - Money is held in integer cents.  A decimal of the source with at     *)
(*    most two fraction digits d is the integer 100*d; a multiplier m      *)
(*    (VAT, fee) is the integer 100*m.  Math.round(x * m) on cents is      *)
(*    (x*m100 + 50) \div 100.  Binary floating-point error of the          *)
(*    JavaScript numbers is not modelled.                                  *)
(*  - A text that is either blank or a value is a sequence: << >> is the   *)
(*    empty text, <<v>> the text of v.                                     *)
(*  - A product code (EAN) is a sequence of one-character strings.         *)
(***************************************************************************)
EXTENDS Integers, Sequences, FiniteSets, TLC

VARIABLES
  sources,    \* bucket ftp-import and mapping-files: the extracts
  storage,    \* bucket exports: intermediate artifacts and final exports
  runs,       \* table sync_runs: run id -> run record (steps, metrics)
  request,    \* the body of the invocation handled last
  response,   \* the HTTP response of the invocation handled last
  ncalls,     \* number of invocations handled so far
  repeated,   \* history: the invocation handled last repeated the one before it
  probe,      \* input and output of a utility function applied on its own
  workers,    \* invocations in flight: worker -> its position and what it holds
  writer      \* history: artifact -> the run whose step wrote it last

vars ==
  <<sources, storage, runs, request, response, ncalls, repeated, probe, workers, writer>>

-----------------------------------------------------------------------------
(* Bounds of the model *)

MaxRows == 2          \* rows of the material extract
MaxCalls == 4         \* invocations of the handler in one behaviour, any order
MaxPipelineCalls == 7 \* invocations of the handler in one behaviour, in order
MaxProbeCents == 450  \* largest amount handed to the .99 forcing on its own
MaxPad == 14          \* longest run of digits appended to a probed code
MaxOverlapCalls == 3  \* invocations in one behaviour of overlapping invocations
MaxMergeRows == 3     \* rows of the material extract when parse_merge runs alone

-----------------------------------------------------------------------------
(* Generic helpers *)

Blank == << >>

Txt(v) == <<v>>

Range(s) == {s[i] : i \in 1..Len(s)}

RECURSIVE Rep(_, _)
Rep(n, ch) == IF n <= 0 THEN << >> ELSE <<ch>> \o Rep(n - 1, ch)

RECURSIVE SeqsUpTo(_, _)
SeqsUpTo(S, n) ==
  IF n = 0 THEN {<< >>}
  ELSE LET shorter == SeqsUpTo(S, n - 1)
       IN shorter \cup {Append(s, x) : s \in {t \in shorter : Len(t) = n - 1}, x \in S}

\* JavaScript's remainder: the sign of the result is the sign of the dividend.
JsRem(a, n) == IF a >= 0 THEN a % n ELSE 0 - ((0 - a) % n)

\* a slip: the product truncated to whole cents instead of rounded
RoundMulTruncated(x, m100) == (x * m100) \div 100

\* Math.round(x * m) for an integer x and a multiplier m given in hundredths.
RoundMul(x, m100) == (x * m100 + 50) \div 100

-----------------------------------------------------------------------------
(* Utility functions of sync-step-runner/index.ts and of utils/ *)

\* a slip: the amount forced to the .99 below it
toComma99CentsDown(cents) ==
  IF JsRem(cents, 100) = 99 THEN cents ELSE (cents \div 100) * 100 - 1

\* index.ts: toComma99Cents(cents), on integer cents.
toComma99Cents(cents) ==
  IF JsRem(cents, 100) = 99 THEN cents
  ELSE LET euros == cents \div 100
           target == euros * 100 + 99
       IN IF target < cents THEN (euros + 1) * 100 + 99 ELSE target

\* utils/pricing.ts: toComma99Cents(v), v in currency units.  The argument is
\* given here as 100*v; the result is the text of 100*result, blank for NaN.
toComma99CentsClient(v100) ==
  IF v100 <= 0 THEN Blank
  ELSE LET cents == v100
           euros == cents \div 100
           resultCents == euros * 100 + 99
       IN Txt(IF cents > resultCents THEN (euros + 1) * 100 + 99 ELSE resultCents)

Digits == {"0", "1", "2", "3", "4", "5", "6", "7", "8", "9"}

\* the characters \s matches, among those the model uses
IsSpace(c) == c \in {" "}

RECURSIVE TrimLeft(_)
TrimLeft(s) ==
  IF s # << >> /\ IsSpace(Head(s)) THEN TrimLeft(Tail(s)) ELSE s

RECURSIVE TrimRight(_)
TrimRight(s) ==
  IF s # << >> /\ IsSpace(s[Len(s)]) THEN TrimRight(SubSeq(s, 1, Len(s) - 1)) ELSE s

\* String.prototype.trim
Trim(s) == TrimRight(TrimLeft(s))

\* original.replace(/[\s-]+/g, '')
Compact(s) == SelectSeq(s, LAMBDA c : ~IsSpace(c) /\ c # "-")

\* /^\d+$/.test(s)
AllDigits(s) == s # << >> /\ \A i \in 1..Len(s) : s[i] \in Digits

Rejected(reason, len) == [ok |-> FALSE, value |-> << >>, reason |-> reason, len |-> len]

Accepted(value) == [ok |-> TRUE, value |-> value, reason |-> "", len |-> Len(value)]

\* a slip: a code of 12 digits accepted as it is, without the leading zero
normalizeEANUnpadded(raw) ==
  LET original == Trim(raw)
      compact == Compact(original)
  IN IF original = << >> THEN Rejected("EAN mancante", 0)
     ELSE IF ~AllDigits(compact) THEN Rejected("EAN non numerico", Len(compact))
     ELSE IF Len(compact) \in {12, 13} THEN Accepted(compact)
     ELSE IF Len(compact) = 14
          THEN Accepted(IF Head(compact) = "0" THEN Tail(compact) ELSE compact)
     ELSE Rejected("lunghezza", Len(compact))

\* index.ts: normalizeEAN(raw).  The reason `lunghezza ${n}` is the reason
\* "lunghezza" with len = n.
normalizeEAN(raw) ==
  LET original == Trim(raw)
      compact == Compact(original)
  IN IF original = << >> THEN Rejected("EAN mancante", 0)
     ELSE IF ~AllDigits(compact) THEN Rejected("EAN non numerico", Len(compact))
     ELSE IF Len(compact) = 12 THEN Accepted(<<"0">> \o compact)
     ELSE IF Len(compact) = 13 THEN Accepted(compact)
     ELSE IF Len(compact) = 14
          THEN Accepted(IF Head(compact) = "0" THEN Tail(compact) ELSE compact)
     ELSE Rejected("lunghezza", Len(compact))

\* utils/ean.ts: normalizeEAN(raw).
normalizeEANClient(raw) ==
  LET original == Trim(raw)
      compact == Compact(original)
  IN IF original = << >> THEN Rejected("EAN mancante", 0)
     ELSE IF ~AllDigits(compact)
          THEN Rejected("EAN contiene caratteri non numerici", Len(compact))
     ELSE IF Len(compact) = 13 THEN Accepted(compact)
     ELSE IF Len(compact) = 12 THEN Accepted(<<"0">> \o compact)
     ELSE Rejected("EAN lunghezza non valida", Len(compact))

-----------------------------------------------------------------------------
(* Program constants *)

VatMultiplier == 122        \* the literal 1.22, in hundredths
AltBaseMultiplier == 125    \* the literal 1.25, in hundredths
MinStock == 2               \* stock < 2 is skipped as lowStock
DefaultMediaworldPrepDays == 3
DefaultEpricePrepDays == 1
MaxMpnLength == 40
MinEanLength == 12

StepNames ==
  {"parse_merge", "ean_mapping", "pricing", "export_ean", "export_mediaworld", "export_eprice"}

-----------------------------------------------------------------------------
(* Files.  An absent file is Blank, a present one is Txt(content). *)

\* A numeric field of a source extract, as the text parseInt / parseFloat
\* see: the number its leading characters spell, if they spell one, and
\* whether other characters follow.  Num(5) is "5", Garbage is "" or "abc",
\* NumThenJunk(5) is "5abc".
Num(n) == [digits |-> Txt(n), junk |-> FALSE]
Garbage == [digits |-> Blank, junk |-> TRUE]
NumThenJunk(n) == [digits |-> Txt(n), junk |-> TRUE]

\* parseInt(v) || 0 and parseFloat(String(v || '0').replace(',', '.')) || 0:
\* both parse the longest numeric prefix and give NaN when there is none
ParseOr0(t) == IF t.digits = Blank THEN 0 ELSE t.digits[1]

\* what a numeric column of an intermediate table holds: parseFloat(v) || 0
LoadNum(t) == IF t = Blank THEN 0 ELSE t[1]

\* `${n || ''}` for a number n
SaveNum(n) == IF n = 0 THEN Blank ELSE Txt(n)

\* finalEuros.toFixed(2).replace('.', ','), for an amount in cents
Display(cents) ==
  LET a == IF cents < 0 THEN 0 - cents ELSE cents
  IN Txt([neg |-> cents < 0, int |-> a \div 100, frac |-> a % 100])

IndexPut(m, k, v) == [x \in (DOMAIN m) \cup {k} |-> IF x = k THEN v ELSE m[x]]

EmptyIndex == [x \in {} |-> 0]

\* stepParseMerge, lines 72-82: the stock index, later rows overwrite earlier ones
RECURSIVE StockIndex(_, _)
StockIndex(rows, m) ==
  IF rows = << >> THEN m
  ELSE LET r == Head(rows)
       IN StockIndex(Tail(rows),
                     IF r.Matnr # "" THEN IndexPut(m, r.Matnr, ParseOr0(r.ExistingStock))
                     ELSE m)

\* stepParseMerge, lines 90-105: the price index
RECURSIVE PriceIndex(_, _)
PriceIndex(rows, m) ==
  IF rows = << >> THEN m
  ELSE LET r == Head(rows)
       IN PriceIndex(Tail(rows),
                     IF r.Matnr # ""
                     THEN IndexPut(m, r.Matnr, [lp |-> ParseOr0(r.ListPrice),
                                                cbp |-> ParseOr0(r.CustBestPrice),
                                                sur |-> ParseOr0(r.Surcharge)])
                     ELSE m)

NoSkips == [noStock |-> 0, noPrice |-> 0, lowStock |-> 0, noValid |-> 0]

\* a line of products.tsv
ProductLine(m, mpn, ean, desc, stock, lp, cbp, sur, pf, pfnum, lpf) ==
  [Matnr |-> m, MPN |-> mpn, EAN |-> ean, Desc |-> desc, Stock |-> stock,
   LP |-> lp, CBP |-> cbp, Sur |-> sur, PF |-> pf, PFNum |-> pfnum, LPF |-> lpf]

\* a slip: the stock threshold tested before the lookup in the price index
SkipReasonStockFirst(m, stockMap, priceMap) ==
  IF m \notin DOMAIN stockMap THEN "noStock"
  ELSE IF stockMap[m] < MinStock THEN "lowStock"
  ELSE IF m \notin DOMAIN priceMap THEN "noPrice"
  ELSE IF priceMap[m].lp <= 0 /\ priceMap[m].cbp <= 0 THEN "noValid"
  ELSE ""

\* stepParseMerge, lines 137-140: the counter of the filter that rejects the
\* row with key m, "" when none does
SkipReason(m, stockMap, priceMap) ==
  IF m \notin DOMAIN stockMap THEN "noStock"
  ELSE IF m \notin DOMAIN priceMap THEN "noPrice"
  ELSE IF stockMap[m] < MinStock THEN "lowStock"
  ELSE IF priceMap[m].lp <= 0 /\ priceMap[m].cbp <= 0 THEN "noValid"
  ELSE ""

\* a slip: a row without a key counted as a row without stock
RECURSIVE JoinMaterialCountingKeyless(_, _, _, _)
JoinMaterialCountingKeyless(rows, stockMap, priceMap, acc) ==
  IF rows = << >> THEN acc
  ELSE
    LET r == Head(rows)
        m == r.Matnr
        rest == Tail(rows)
        skip(f) == [acc EXCEPT !.skipped[f] = @ + 1]
    IN IF m = "" \/ m \notin DOMAIN stockMap
            THEN JoinMaterialCountingKeyless(rest, stockMap, priceMap, skip("noStock"))
       ELSE IF m \notin DOMAIN priceMap
            THEN JoinMaterialCountingKeyless(rest, stockMap, priceMap, skip("noPrice"))
       ELSE IF stockMap[m] < MinStock
            THEN JoinMaterialCountingKeyless(rest, stockMap, priceMap, skip("lowStock"))
       ELSE IF priceMap[m].lp <= 0 /\ priceMap[m].cbp <= 0
            THEN JoinMaterialCountingKeyless(rest, stockMap, priceMap, skip("noValid"))
       ELSE JoinMaterialCountingKeyless(rest, stockMap, priceMap,
              [acc EXCEPT !.lines = Append(@,
                 ProductLine(m, r.ManufPartNr, Trim(r.EAN), r.ShortDescription,
                             stockMap[m], priceMap[m].lp, priceMap[m].cbp,
                             priceMap[m].sur, Blank, Blank, Blank))])

\* stepParseMerge, lines 126-144: the join of the material rows with the two
\* indices; acc = [lines, skipped]
RECURSIVE JoinMaterial(_, _, _, _)
JoinMaterial(rows, stockMap, priceMap, acc) ==
  IF rows = << >> THEN acc
  ELSE
    LET r == Head(rows)
        m == r.Matnr
        rest == Tail(rows)
        skip(f) == [acc EXCEPT !.skipped[f] = @ + 1]
    IN IF m = "" THEN JoinMaterial(rest, stockMap, priceMap, acc)
       ELSE IF SkipReason(m, stockMap, priceMap) # ""
            THEN JoinMaterial(rest, stockMap, priceMap,
                              skip(SkipReason(m, stockMap, priceMap)))
       ELSE JoinMaterial(rest, stockMap, priceMap,
              [acc EXCEPT !.lines = Append(@,
                 ProductLine(m, r.ManufPartNr, Trim(r.EAN), r.ShortDescription,
                             stockMap[m], priceMap[m].lp, priceMap[m].cbp,
                             priceMap[m].sur, Blank, Blank, Blank))])

-----------------------------------------------------------------------------
(* The run record and the outcome of a step *)

\* a slip: the spread turned round, the value held before wins a collision
MergeKeepingFirst(a, b) ==
  [k \in (DOMAIN a) \cup (DOMAIN b) |-> IF k \in DOMAIN a THEN a[k] ELSE b[k]]

Merge(a, b) ==
  [k \in (DOMAIN a) \cup (DOMAIN b) |-> IF k \in DOMAIN b THEN b[k] ELSE a[k]]

NoMetrics == [x \in {} |-> 0]

FailedResult(msg) == [status |-> "failed", error |-> msg, metrics |-> NoMetrics]

\* a slip: the new result merged into the result the step had before
updateStepResultMerging(run, stepName, result) ==
  [steps |-> IndexPut(IndexPut(run.steps, stepName,
                               IF stepName \in DOMAIN run.steps
                               THEN Merge(run.steps[stepName], result) ELSE result),
                      "current_step", stepName),
   metrics |-> Merge(run.metrics, result.metrics)]

\* updateStepResult, on the run record read; duration_ms is wall-clock time
\* and is left out of every result
updateStepResult(run, stepName, result) ==
  [steps |-> IndexPut(IndexPut(run.steps, stepName, result), "current_step", stepName),
   metrics |-> Merge(run.metrics, result.metrics)]

\* What a step function did: its return value, the result it handed to
\* updateStepResult (Blank when it handed none), and the bucket afterwards.
Outcome(success, error, result, store) ==
  [success |-> success, error |-> error, result |-> result, storage |-> store]

\* the catch block of every step
Caught(msg, store) == Outcome(FALSE, msg, Txt(FailedResult(msg)), store)

SumSkipped(sk) == sk.noStock + sk.noPrice + sk.lowStock + sk.noValid

-----------------------------------------------------------------------------
(* parse_merge *)

\* a slip: the output file opened (header only) before the extract is looked for
MissingExtractTruncating(msg, store) ==
  Outcome(FALSE, msg, Blank, [store EXCEPT !.products = Txt([cols |-> 8, lines |-> << >>])])

\* stepParseMerge, lines 69, 87, 108: the early return on an absent extract;
\* nothing is written and no result is recorded
MissingExtract(msg, store) == Outcome(FALSE, msg, Blank, store)

stepParseMerge(src, store) ==
  IF src.stock = Blank THEN MissingExtract("Stock file mancante", store)
  ELSE IF src.price = Blank THEN MissingExtract("Price file mancante", store)
  ELSE IF src.material = Blank THEN MissingExtract("Material file mancante", store)
  ELSE
    LET stockMap == StockIndex(src.stock[1], EmptyIndex)
        priceMap == PriceIndex(src.price[1], EmptyIndex)
        joined == JoinMaterial(src.material[1], stockMap, priceMap,
                               [lines |-> << >>, skipped |-> NoSkips])
        productCount == Len(joined.lines)
    IN Outcome(TRUE, "",
         Txt([status |-> "success", products |-> productCount, skipped |-> joined.skipped,
              metrics |-> [products_total |-> productCount + SumSkipped(joined.skipped),
                           products_processed |-> productCount]]),
         [store EXCEPT !.products = Txt([cols |-> 8, lines |-> joined.lines])])

-----------------------------------------------------------------------------
(* products.tsv *)

\* loadProductsTSV: one product per line
LoadProduct(l) ==
  [Matnr |-> l.Matnr, MPN |-> l.MPN, EAN |-> l.EAN, Desc |-> l.Desc, Stock |-> l.Stock,
   LP |-> l.LP, CBP |-> l.CBP, Sur |-> l.Sur,
   PF |-> l.PF, PFNum |-> LoadNum(l.PFNum), LPF |-> l.LPF]

loadProductsTSV(file) == [i \in 1..Len(file.lines) |-> LoadProduct(file.lines[i])]

\* saveProductsTSV: always the eleven-column header
SaveProduct(p) ==
  ProductLine(p.Matnr, p.MPN, p.EAN, p.Desc, p.Stock, p.LP, p.CBP, p.Sur,
              p.PF, SaveNum(p.PFNum), p.LPF)

saveProductsTSV(products) ==
  Txt([cols |-> 11, lines |-> [i \in 1..Len(products) |-> SaveProduct(products[i])]])

-----------------------------------------------------------------------------
(* ean_mapping *)

\* stepEanMapping, lines 219-223
RECURSIVE MappingMap(_, _)
MappingMap(rows, m) ==
  IF rows = << >> THEN m
  ELSE LET r == Head(rows)
       IN MappingMap(Tail(rows),
                     IF r.mpn # "" /\ r.ean # << >> THEN IndexPut(m, r.mpn, r.ean) ELSE m)

NeedsEan(p) == p.EAN = << >> /\ p.MPN # ""

\* a slip: the mapped code written over a code the row already has
MapProductOverwriting(p, mappingMap) ==
  IF p.MPN # "" /\ p.MPN \in DOMAIN mappingMap
  THEN [p EXCEPT !.EAN = mappingMap[p.MPN]]
  ELSE p

\* stepEanMapping, lines 226-232, on one product
MapProduct(p, mappingMap) ==
  IF NeedsEan(p) /\ p.MPN \in DOMAIN mappingMap
  THEN [p EXCEPT !.EAN = mappingMap[p.MPN]]
  ELSE p

\* stepEanMapping, lines 226-232: the two counters of the loop
EanMapped(products, mappingMap) ==
  Cardinality({i \in 1..Len(products) :
                 NeedsEan(products[i]) /\ products[i].MPN \in DOMAIN mappingMap})

EanMissing(products, mappingMap) ==
  Cardinality({i \in 1..Len(products) :
                 NeedsEan(products[i]) /\ products[i].MPN \notin DOMAIN mappingMap})

stepEanMapping(src, store) ==
  IF store.products = Blank THEN Caught("Products file not found", store)
  ELSE
    LET products == loadProductsTSV(store.products[1])
        hasMapping == src.mapping # Blank
        mappingMap == IF hasMapping THEN MappingMap(src.mapping[1], EmptyIndex) ELSE EmptyIndex
        eanMapped == IF hasMapping
                     THEN EanMapped(products, mappingMap)
                     ELSE 0
        eanMissing == IF hasMapping
                      THEN EanMissing(products, mappingMap)
                      ELSE 0
        mapped == [i \in 1..Len(products) |-> MapProduct(products[i], mappingMap)]
    IN Outcome(TRUE, "",
         Txt([status |-> "success", mapped |-> eanMapped, missing |-> eanMissing,
              metrics |-> [products_ean_mapped |-> eanMapped,
                           products_ean_missing |-> eanMissing]]),
         [store EXCEPT !.products = saveProductsTSV(mapped)])

\* public/ean-prefill-worker.js, lines 27-62: the mapping of the worker, the
\* row seen first for an MPN wins, a row without a code is passed over
RECURSIVE PrefillMap(_, _)
PrefillMap(rows, m) ==
  IF rows = << >> THEN m
  ELSE LET r == Head(rows)
       IN PrefillMap(Tail(rows),
                     IF Trim(r.ean) = << >> \/ r.mpn \in DOMAIN m THEN m
                     ELSE IndexPut(m, r.mpn, Trim(r.ean)))

NoPrefillCounters ==
  [already_populated |-> 0, filled_now |-> 0, skipped_due_to_conflict |-> 0,
   missing_mapping_in_new_file |-> 0]

\* public/ean-prefill-worker.js, lines 99-141: the material rows with the
\* empty codes filled in; acc = [updatedMaterial, counters]
RECURSIVE PrefillMaterial(_, _, _)
PrefillMaterial(materialData, mappingMap, acc) ==
  IF materialData = << >> THEN acc
  ELSE
    LET row == Head(materialData)
        mpn == row.ManufPartNr
        known == mpn # "" /\ mpn \in DOMAIN mappingMap
        count(f) == [acc.counters EXCEPT ![f] = @ + 1]
        push(newRow, counters) ==
          [updatedMaterial |-> Append(acc.updatedMaterial, newRow), counters |-> counters]
    IN PrefillMaterial(Tail(materialData), mappingMap,
         IF Trim(row.EAN) # << >>
         THEN push(row, IF known
                        THEN [count("already_populated") EXCEPT
                                !.skipped_due_to_conflict = @ + 1]
                        ELSE count("already_populated"))
         ELSE IF known
         THEN push([row EXCEPT !.EAN = mappingMap[mpn]], count("filled_now"))
         ELSE push(row, count("missing_mapping_in_new_file")))

-----------------------------------------------------------------------------
(* pricing *)

Max(a, b) == IF a >= b THEN a ELSE b

\* ceil(s * f / (10000 * scale)) for s, f >= 0, computed in two halves so that
\* no intermediate product leaves the 32-bit integers
CeilScaled(s1, f, scale) ==
  LET h == s1 \div 10000
      l == s1 % 10000
      lf == l * f
      t == h * f + lf \div 10000
      n == lf % 10000
  IN t \div scale + (IF t % scale > 0 \/ n > 0 THEN 1 ELSE 0)

\* a slip: a final price already in the table taken as the base
BaseCentsFromFinal(p) ==
  IF p.PFNum > 0 THEN p.PFNum
  ELSE IF p.CBP > 0 THEN p.CBP + p.Sur ELSE IF p.LP > 0 THEN p.LP ELSE 0

\* stepPricing, line 265
BaseCents(p) ==
  IF p.CBP > 0 THEN p.CBP + p.Sur ELSE IF p.LP > 0 THEN p.LP ELSE 0

\* stepPricing, lines 267-268: shipping, VAT, the two fees, each multiplication
\* rounded to whole cents, then the .99 forcing
AfterVat(baseCents, fc) == RoundMul(baseCents + fc.shippingCost, VatMultiplier)

AfterFeeDrev(baseCents, fc) == RoundMul(AfterVat(baseCents, fc), fc.feeDrev)

AfterFeeMkt(baseCents, fc) == RoundMul(AfterFeeDrev(baseCents, fc), fc.feeMkt)

FinalCents(baseCents, fc) == toComma99Cents(AfterFeeMkt(baseCents, fc))

\* a slip: the normal route taken from the chain that rounds to whole cents
\* after every multiplication
ListPriceWithFeeRounded(p, finalCents, fc) ==
  LET useAlt == p.LP <= 0 \/ (p.CBP > 0 /\ p.LP < p.CBP)
      fees == fc.feeDrev * fc.feeMkt
  IN IF useAlt /\ p.CBP > 0
     THEN SaveNum(Max(
            CeilScaled((p.CBP * AltBaseMultiplier + fc.shippingCost * 100) * VatMultiplier,
                       fees, 1000000),
            (finalCents * AltBaseMultiplier + 9999) \div 10000))
     ELSE IF p.LP > 0
     THEN SaveNum((AfterFeeMkt(p.LP, fc) + 99) \div 100)
     ELSE Blank

\* stepPricing, lines 274-284: the list price with fee, in whole currency
\* units; the text written for it (`${p.LPF || ''}`)
ListPriceWithFee(p, finalCents, fc) ==
  LET useAlt == p.LP <= 0 \/ (p.CBP > 0 /\ p.LP < p.CBP)
      fees == fc.feeDrev * fc.feeMkt
  IN IF useAlt /\ p.CBP > 0
     THEN SaveNum(Max(
            CeilScaled((p.CBP * AltBaseMultiplier + fc.shippingCost * 100) * VatMultiplier,
                       fees, 1000000),
            (finalCents * AltBaseMultiplier + 9999) \div 10000))
     ELSE IF p.LP > 0
     THEN SaveNum(CeilScaled((p.LP + fc.shippingCost) * VatMultiplier, fees, 10000))
     ELSE Blank

\* stepPricing, lines 262-285, on one product
PriceProduct(p, fc) ==
  LET finalCents == FinalCents(BaseCents(p), fc)
  IN [p EXCEPT !.PF = Display(finalCents),
               !.PFNum = finalCents,
               !.LPF = ListPriceWithFee(p, finalCents, fc)]

\* feeConfig is Blank when the request carries no fee_config: reading
\* feeConfig.shippingCost then throws inside the loop, that is, only when
\* there is a product to price
stepPricing(store, feeConfig) ==
  IF store.products = Blank THEN Caught("Products file not found", store)
  ELSE
    LET products == loadProductsTSV(store.products[1])
    IN IF feeConfig = Blank /\ Len(products) > 0
       THEN Caught("TypeError", store)
       ELSE
         LET priced == [i \in 1..Len(products) |-> PriceProduct(products[i], feeConfig[1])]
         IN Outcome(TRUE, "",
              Txt([status |-> "success", priced |-> Len(products), metrics |-> NoMetrics]),
              [store EXCEPT !.products = saveProductsTSV(priced)])

-----------------------------------------------------------------------------
(* export_ean *)

\* position of the entry keyed by ean in the catalog, 0 when there is none
Find(cat, ean) ==
  IF \E i \in 1..Len(cat) : cat[i].EAN = ean
  THEN CHOOSE i \in 1..Len(cat) : cat[i].EAN = ean
  ELSE 0

\* a slip: the comparison turned round, the cheaper candidate wins
ReplacesLower(p, existing) == p.PFNum < existing.PFNum

\* stepExportEan, line 321: does the candidate p replace the entry held
Replaces(p, existing) == p.PFNum > existing.PFNum

\* stepExportEan, lines 316-324: byEAN as the sequence of its values in
\* insertion order; acc = [cat, discarded]
RECURSIVE Dedup(_, _)
Dedup(products, acc) ==
  IF products = << >> THEN acc
  ELSE
    LET p == Head(products)
        ean == normalizeEAN(p.EAN)
    IN IF ~ean.ok
       THEN Dedup(Tail(products), [acc EXCEPT !.discarded = @ + 1])
       ELSE
         LET i == Find(acc.cat, ean.value)
             entry == [p EXCEPT !.EAN = ean.value]
         IN Dedup(Tail(products),
                  IF i = 0 THEN [acc EXCEPT !.cat = Append(@, entry)]
                  ELSE IF Replaces(p, acc.cat[i]) THEN [acc EXCEPT !.cat[i] = entry]
                  ELSE acc)

\* utils/ean.ts, DiscardedRow: Motivo_scarto is the reason together with the
\* number it quotes (the length of the code, or the final price of the loser)
DiscardedRow(r, original, reason, quoted) ==
  [Matnr |-> r.Matnr, ManufPartNr |-> r.MPN, EAN_originale |-> original,
   Motivo_scarto |-> reason, quoted |-> quoted]

NoStats ==
  [tot_righe_input |-> 0, ean_validi_13 |-> 0, ean_padded_12_to_13 |-> 0,
   ean_mancanti |-> 0, ean_non_numerici |-> 0, ean_lunghezze_invalid |-> 0,
   ean_duplicati_risolti |-> 0]

\* utils/ean.ts, filterAndNormalizeForEAN, lines 59-84: the rows whose code
\* normalization accepts, with the code normalized; acc = [valid, discarded, stats]
RECURSIVE FilterValid(_, _)
FilterValid(rows, acc) ==
  IF rows = << >> THEN acc
  ELSE
    LET r == Head(rows)
        res == normalizeEANClient(r.EAN)
        bump(f) == [acc.stats EXCEPT ![f] = @ + 1]
    IN IF ~res.ok
       THEN FilterValid(Tail(rows),
              [acc EXCEPT
                 !.stats = IF res.reason = "EAN mancante" THEN bump("ean_mancanti")
                           ELSE IF res.reason = "EAN contiene caratteri non numerici"
                           THEN bump("ean_non_numerici")
                           ELSE bump("ean_lunghezze_invalid"),
                 !.discarded = Append(@, DiscardedRow(r, Trim(r.EAN), res.reason,
                                                      res.len))])
       ELSE FilterValid(Tail(rows),
              [acc EXCEPT
                 !.stats = IF Len(Compact(Trim(r.EAN))) = 12
                           THEN bump("ean_padded_12_to_13") ELSE bump("ean_validi_13"),
                 !.valid = Append(@, [r EXCEPT !.EAN = res.value])])

\* position of the entry keyed by key in byEAN, 0 when there is none
FindRow(byEAN, key) ==
  IF \E i \in 1..Len(byEAN) : byEAN[i].row.EAN = key
  THEN CHOOSE i \in 1..Len(byEAN) : byEAN[i].row.EAN = key
  ELSE 0

\* utils/ean.ts, filterAndNormalizeForEAN, lines 86-110: one entry per code,
\* the greater or equal final price wins, the loser goes to the discards;
\* acc = [byEAN, discarded, stats]
RECURSIVE DedupClient(_, _)
DedupClient(valid, acc) ==
  IF valid = << >> THEN acc
  ELSE
    LET r == Head(valid)
        prezzoFinale == r.PFNum
        i == FindRow(acc.byEAN, r.EAN)
    IN IF i = 0
       THEN DedupClient(Tail(valid),
              [acc EXCEPT !.byEAN = Append(@, [row |-> r, prezzoFinale |-> prezzoFinale])])
       ELSE
         LET prev == acc.byEAN[i]
             bestIsNew == prezzoFinale >= prev.prezzoFinale
             best == IF bestIsNew THEN [row |-> r, prezzoFinale |-> prezzoFinale] ELSE prev
             discardedRow == IF bestIsNew THEN prev.row ELSE r
             discardedPrice == IF bestIsNew THEN prev.prezzoFinale ELSE prezzoFinale
         IN DedupClient(Tail(valid),
              [acc EXCEPT
                 !.stats.ean_duplicati_risolti = @ + 1,
                 !.discarded = Append(@, DiscardedRow(discardedRow, discardedRow.EAN,
                                                      "ean_duplicato", discardedPrice)),
                 !.byEAN[i] = best])

\* utils/ean.ts, filterAndNormalizeForEAN(rows, computeFinalPrice), with the
\* final price of a row its PFNum
filterAndNormalizeForEAN(rows) ==
  LET v == FilterValid(rows, [valid |-> << >>, discarded |-> << >>,
                              stats |-> [NoStats EXCEPT !.tot_righe_input = Len(rows)]])
      d == DedupClient(v.valid, [byEAN |-> << >>, discarded |-> v.discarded,
                                 stats |-> v.stats])
  IN [kept |-> [i \in 1..Len(d.byEAN) |-> d.byEAN[i].row],
      discarded |-> d.discarded,
      stats |-> d.stats]

\* a line of ean_catalog.tsv, lines 330-333: ten columns, no surcharge
CatalogLine(p) ==
  [Matnr |-> p.Matnr, MPN |-> p.MPN, EAN |-> p.EAN, Desc |-> p.Desc, Stock |-> p.Stock,
   LP |-> p.LP, CBP |-> p.CBP, PF |-> p.PF, PFNum |-> Txt(p.PFNum), LPF |-> p.LPF]

\* a row of Catalogo EAN.csv, lines 338-343
CatalogCsvRow(p) ==
  [Matnr |-> p.Matnr, ManufPartNr |-> p.MPN, EAN |-> p.EAN, ShortDescription |-> p.Desc,
   ExistingStock |-> p.Stock, ListPrice |-> p.LP, CustBestPrice |-> p.CBP,
   PrezzoFinale |-> p.PF, ListPriceConFee |-> p.LPF]

stepExportEan(store) ==
  IF store.products = Blank THEN Caught("Products file not found", store)
  ELSE
    LET products == loadProductsTSV(store.products[1])
        d == Dedup(products, [cat |-> << >>, discarded |-> 0])
        eanCatalog == d.cat
    IN Outcome(TRUE, "",
         Txt([status |-> "success", rows |-> Len(eanCatalog), discarded |-> d.discarded,
              metrics |-> [products_ean_invalid |-> d.discarded,
                           products_after_override |-> Len(products),
                           exported_files_count |-> 1]]),
         [store EXCEPT
            !.eanCatalog = Txt([i \in 1..Len(eanCatalog) |-> CatalogLine(eanCatalog[i])]),
            !.catalogCsv = Txt([i \in 1..Len(eanCatalog) |-> CatalogCsvRow(eanCatalog[i])])])

-----------------------------------------------------------------------------
(* export_mediaworld and export_eprice *)

\* loadEanCatalog
LoadCatalogEntry(l) ==
  [Matnr |-> l.Matnr, MPN |-> l.MPN, EAN |-> l.EAN, Desc |-> l.Desc, Stock |-> l.Stock,
   LP |-> l.LP, CBP |-> l.CBP, PF |-> l.PF, PFNum |-> LoadNum(l.PFNum), LPF |-> l.LPF]

loadEanCatalog(file) == [i \in 1..Len(file) |-> LoadCatalogEntry(file[i])]

\* a slip: the length test of the manufacturer code left out
MediaworldSkipsAnyLength(p) ==
  \/ p.MPN = ""
  \/ p.EAN = << >>
  \/ Len(p.EAN) < MinEanLength
  \/ p.Stock <= 0
  \/ p.LPF = Blank
  \/ p.PFNum = 0

\* stepExportMediaworld, line 399: the row is skipped
MediaworldSkips(p) ==
  \/ p.MPN = ""
  \/ Len(p.MPN) > MaxMpnLength
  \/ p.EAN = << >>
  \/ Len(p.EAN) < MinEanLength
  \/ p.Stock <= 0
  \/ p.LPF = Blank
  \/ p.PFNum = 0

\* stepExportMediaworld, lines 402-404: the columns that are not empty
MediaworldRow(p, prepDays) ==
  [sku |-> p.MPN, productId |-> p.EAN, idType |-> "EAN", description |-> p.Desc,
   price |-> p.LPF, quantity |-> p.Stock, state |-> "Nuovo",
   logisticClass |-> "Consegna gratuita", discountPrice |-> p.PFNum,
   prepDays |-> prepDays, strikeType |-> "recommended-retail-price"]

stepExportMediaworld(store, prepDays) ==
  IF store.eanCatalog = Blank THEN Caught("EAN catalog not found", store)
  ELSE
    LET eanCatalog == loadEanCatalog(store.eanCatalog[1])
        kept == SelectSeq(eanCatalog, LAMBDA p : ~MediaworldSkips(p))
        mwRows == [i \in 1..Len(kept) |-> MediaworldRow(kept[i], prepDays)]
        mwSkipped == Len(eanCatalog) - Len(kept)
    IN Outcome(TRUE, "",
         Txt([status |-> "success", rows |-> Len(mwRows), skipped |-> mwSkipped,
              metrics |-> [mediaworld_export_rows |-> Len(mwRows),
                           mediaworld_export_skipped |-> mwSkipped]]),
         [store EXCEPT !.mediaworldCsv = Txt(mwRows)])

\* a slip: the manufacturer code not looked at
EpriceSkipsIgnoringMpn(p) == p.EAN = << >> \/ p.Stock <= 0 \/ p.PFNum = 0

\* stepExportEprice, line 439: the row is skipped
EpriceSkips(p) == p.EAN = << >> \/ p.MPN = "" \/ p.Stock <= 0 \/ p.PFNum = 0

\* stepExportEprice, line 440
EpriceRow(p, prepDays) ==
  [EAN |-> p.EAN, SKU |-> p.MPN, Titolo |-> p.Desc, Prezzo |-> p.PF,
   Quantita |-> p.Stock, TempoConsegna |-> prepDays]

stepExportEprice(store, prepDays) ==
  IF store.eanCatalog = Blank THEN Caught("EAN catalog not found", store)
  ELSE
    LET eanCatalog == loadEanCatalog(store.eanCatalog[1])
        kept == SelectSeq(eanCatalog, LAMBDA p : ~EpriceSkips(p))
        epRows == [i \in 1..Len(kept) |-> EpriceRow(kept[i], prepDays)]
        epSkipped == Len(eanCatalog) - Len(kept)
    IN Outcome(TRUE, "",
         Txt([status |-> "success", rows |-> Len(epRows), skipped |-> epSkipped,
              metrics |-> [eprice_export_rows |-> Len(epRows),
                           eprice_export_skipped |-> epSkipped]]),
         [store EXCEPT !.epriceCsv = Txt(epRows)])

-----------------------------------------------------------------------------
(* The request handler (serve) *)

RunIds == {"r1"}

NoResponse == [code |-> 0, status |-> "", error |-> ""]

NoRequest == [run_id |-> "", step |-> "", fee_config |-> Blank]

EmptyRun == [steps |-> [x \in {} |-> 0], metrics |-> NoMetrics]

EmptyStorage ==
  [products |-> Blank, eanCatalog |-> Blank, catalogCsv |-> Blank,
   mediaworldCsv |-> Blank, epriceCsv |-> Blank]

\* fee_config?.mediaworldPrepDays || 3 and fee_config?.epricePrepDays || 1
MediaworldPrepDays(fc) ==
  IF fc = Blank \/ fc[1].mediaworldPrepDays = 0
  THEN DefaultMediaworldPrepDays ELSE fc[1].mediaworldPrepDays

EpricePrepDays(fc) ==
  IF fc = Blank \/ fc[1].epricePrepDays = 0
  THEN DefaultEpricePrepDays ELSE fc[1].epricePrepDays

\* serve, lines 486-504: the step function the switch selects
RunStep(step, fc, src, store) ==
  CASE step = "parse_merge" -> stepParseMerge(src, store)
    [] step = "ean_mapping" -> stepEanMapping(src, store)
    [] step = "pricing" -> stepPricing(store, fc)
    [] step = "export_ean" -> stepExportEan(store)
    [] step = "export_mediaworld" -> stepExportMediaworld(store, MediaworldPrepDays(fc))
    [] step = "export_eprice" -> stepExportEprice(store, EpricePrepDays(fc))

\* serve, lines 510-511
StepResponse(out) ==
  [code |-> IF out.success THEN 200 ELSE 500,
   status |-> IF out.success THEN "ok" ELSE "error",
   error |-> out.error]

\* The run record after the step: a step that handed a result to
\* updateStepResult has it merged into the record of its run.
Recorded(rs, rid, step, out) ==
  IF out.result = Blank THEN rs
  ELSE [rs EXCEPT ![rid] = updateStepResult(@, step, out.result[1])]

\* the files a step uploads when it succeeds
Writes(step) ==
  CASE step \in {"parse_merge", "ean_mapping", "pricing"} -> {"products"}
    [] step = "export_ean" -> {"eanCatalog", "catalogCsv"}
    [] step = "export_mediaworld" -> {"mediaworldCsv"}
    [] step = "export_eprice" -> {"epriceCsv"}

\* the bucket after the uploads of a step that computed `after`
Uploaded(store, step, after) ==
  [f \in DOMAIN store |-> IF f \in Writes(step) THEN after[f] ELSE store[f]]

WrittenBy(who, step, rid) ==
  [f \in DOMAIN who |-> IF f \in Writes(step) THEN rid ELSE who[f]]

\* a slip: paths scoped by run, a run sees only the files its own steps wrote
ArtifactViewScoped(store, who, rid) ==
  [f \in DOMAIN store |-> IF who[f] = rid THEN store[f] ELSE Blank]

\* what a step of run rid finds in the bucket: the paths ('_pipeline/
\* products.tsv', '_pipeline/ean_catalog.tsv', the export names) are fixed
\* and do not depend on the run, so it finds whatever was written last
ArtifactView(store, who, rid) == store

\* a slip: the default branch of the switch records a failed result
serveRecordingUnknown(rid, step, fc) ==
  /\ IF rid = "" \/ step = ""
     THEN /\ response' = [code |-> 400, status |-> "error",
                          error |-> "run_id and step required"]
          /\ UNCHANGED <<storage, runs, writer>>
     ELSE IF step \in StepNames
     THEN LET out == RunStep(step, fc, sources, ArtifactView(storage, writer, rid))
          IN /\ storage' = Uploaded(storage, step, out.storage)
             /\ writer' = IF out.success THEN WrittenBy(writer, step, rid) ELSE writer
             /\ runs' = Recorded(runs, rid, step, out)
             /\ response' = StepResponse(out)
     ELSE /\ response' = [code |-> 400, status |-> "error", error |-> "Unknown step"]
          /\ runs' = [runs EXCEPT ![rid] =
                        updateStepResult(@, step, FailedResult("Unknown step"))]
          /\ UNCHANGED <<storage, writer>>
  /\ request' = [run_id |-> rid, step |-> step, fee_config |-> fc]
  /\ repeated' = (request = [run_id |-> rid, step |-> step, fee_config |-> fc])
  /\ ncalls' = ncalls + 1
  /\ UNCHANGED <<sources, probe, workers>>

\* serve, lines 474-511: one POST, handled from the request to the response.
\* No step (or no run id), or a step the switch does not know, is answered
\* with 400; a known step is run and its return value answered.
serve(rid, step, fc) ==
  /\ IF rid = "" \/ step = ""
     THEN /\ response' = [code |-> 400, status |-> "error",
                          error |-> "run_id and step required"]
          /\ UNCHANGED <<storage, runs, writer>>
     ELSE IF step \in StepNames
     THEN LET out == RunStep(step, fc, sources, ArtifactView(storage, writer, rid))
          IN /\ storage' = Uploaded(storage, step, out.storage)
             /\ writer' = IF out.success THEN WrittenBy(writer, step, rid) ELSE writer
             /\ runs' = Recorded(runs, rid, step, out)
             /\ response' = StepResponse(out)
     ELSE /\ response' = [code |-> 400, status |-> "error", error |-> "Unknown step"]
          /\ UNCHANGED <<storage, runs, writer>>
  /\ request' = [run_id |-> rid, step |-> step, fee_config |-> fc]
  /\ repeated' = (request = [run_id |-> rid, step |-> step, fee_config |-> fc])
  /\ ncalls' = ncalls + 1
  /\ UNCHANGED <<sources, probe, workers>>

-----------------------------------------------------------------------------
(* Inputs *)

E12 == <<"1", "2", "3", "4", "5", "6", "7", "8", "9", "0", "1", "2">>
E13 == <<"0">> \o E12
E14z == <<"0", "0">> \o E12
E14n == <<"4", "0">> \o E12
E12spaced == <<"1", "2", "3", "4", " ", "5", "6", "7", "8", "-", "9", "0", "1", "2">>

FeeA == [shippingCost |-> 600, feeDrev |-> 105, feeMkt |-> 108,
         mediaworldPrepDays |-> 0, epricePrepDays |-> 0]
FeeB == [shippingCost |-> 0, feeDrev |-> 100, feeMkt |-> 100,
         mediaworldPrepDays |-> 5, epricePrepDays |-> 2]

FeeConfigs == {Blank, Txt(FeeA), Txt(FeeB)}

StockRow(m, s) == [Matnr |-> m, ExistingStock |-> s]
PriceRow(m, lp, cbp, sur) ==
  [Matnr |-> m, ListPrice |-> lp, CustBestPrice |-> cbp, Surcharge |-> sur]
MaterialRow(m, mpn, ean, desc) ==
  [Matnr |-> m, ManufPartNr |-> mpn, EAN |-> ean, ShortDescription |-> desc]
MappingRow(mpn, ean) == [mpn |-> mpn, ean |-> ean]

MaterialRows ==
  {MaterialRow("A1", "M1", E12, "Widget"),
   MaterialRow("A2", "M2", E13, "Gadget"),
   MaterialRow("A2", "M3", << >>, "Gizmo"),
   MaterialRow("A1", "M4", E14n, "Doohickey"),
   MaterialRow("A3", "M5", E14z, "Gewgaw")}

MappingFiles == {Blank, Txt(<<MappingRow("M3", E12spaced), MappingRow("M1", E14z)>>)}

\* the extracts of the free-order specification: each one absent or present
SmallSources ==
  [stock : {Blank, Txt(<<StockRow("A1", Num(5)), StockRow("A2", Num(5))>>)},
   price : {Blank, Txt(<<PriceRow("A1", Num(10000), Num(9000), Num(0)),
                         PriceRow("A2", Garbage, Num(12000), Num(100))>>)},
   material : {Blank, Txt(<<MaterialRow("A1", "M1", E12, "Widget"),
                            MaterialRow("A2", "M2", E13, "Gadget"),
                            MaterialRow("A2", "M3", << >>, "Gizmo")>>)},
   mapping : MappingFiles]

\* the extracts of the in-order specification: all present, the material
\* extract any sequence of at most MaxRows rows
StockExtracts ==
  {Txt(<<StockRow("A1", Num(5)), StockRow("A2", Num(5)), StockRow("A3", Num(2))>>),
   Txt(<<StockRow("A1", Garbage), StockRow("A2", Num(1)), StockRow("A1", Num(7))>>)}

PriceExtracts ==
  {Txt(<<PriceRow("A1", Num(10000), Num(9000), Num(0)),
         PriceRow("A2", Num(10000), Num(9000), Num(0)),
         PriceRow("A3", Num(500), Garbage, Num(0))>>),
   Txt(<<PriceRow("A1", Num(10000), Num(9000), Num(0)),
         PriceRow("A2", Garbage, Num(12000), Num(100)),
         PriceRow("A3", Num(0), Num(0), Num(0))>>),
   Txt(<<PriceRow("A1", Num(10000), Num(11000), Num(0)),
         PriceRow("A2", Num(700), Num(650), Num(25)),
         PriceRow("A3", Num(8000), Num(0), Num(0)),
         PriceRow("A1", Num(20000), Num(15000), Num(0))>>)}

MaterialExtracts == {Txt(s) : s \in SeqsUpTo(MaterialRows, MaxRows)}

RichSources ==
  [stock : StockExtracts, price : PriceExtracts,
   material : MaterialExtracts, mapping : MappingFiles]

-----------------------------------------------------------------------------
(* The pipeline in any order: any step may be invoked at any time, one      *)
(* invocation at a time                                                     *)

NoProbe == [fn |-> "", arg |-> 0, res |-> 0]

Workers == {"w1", "w2"}

IdleWorker ==
  [pc |-> "idle", run_id |-> "", step |-> "", fee_config |-> Blank,
   out |-> Blank, snapshot |-> Blank, response |-> NoResponse]

NoWriter == [f \in DOMAIN EmptyStorage |-> ""]

Idle ==
  /\ workers = [w \in Workers |-> IdleWorker]
  /\ writer = NoWriter
  /\ storage = EmptyStorage
  /\ runs = [r \in RunIds |-> EmptyRun]
  /\ request = NoRequest
  /\ response = NoResponse
  /\ ncalls = 0
  /\ repeated = FALSE

Init ==
  /\ sources \in SmallSources
  /\ Idle
  /\ probe = NoProbe

InvokeParseMerge ==
  ncalls < MaxCalls /\ \E rid \in RunIds : serve(rid, "parse_merge", Blank)
InvokeEanMapping ==
  ncalls < MaxCalls /\ \E rid \in RunIds : serve(rid, "ean_mapping", Blank)
InvokePricing ==
  ncalls < MaxCalls /\ \E rid \in RunIds, fc \in FeeConfigs : serve(rid, "pricing", fc)
InvokeExportEan ==
  ncalls < MaxCalls /\ \E rid \in RunIds : serve(rid, "export_ean", Blank)
InvokeExportMediaworld ==
  ncalls < MaxCalls
  /\ \E rid \in RunIds, fc \in {Blank, Txt(FeeB)} : serve(rid, "export_mediaworld", fc)
InvokeExportEprice ==
  ncalls < MaxCalls
  /\ \E rid \in RunIds, fc \in {Blank, Txt(FeeB)} : serve(rid, "export_eprice", fc)
InvokeUnknown ==
  ncalls < MaxCalls /\ \E rid \in RunIds, step \in {"", "cleanup"} : serve(rid, step, Blank)

Next ==
  \/ InvokeParseMerge
  \/ InvokeEanMapping
  \/ InvokePricing
  \/ InvokeExportEan
  \/ InvokeExportMediaworld
  \/ InvokeExportEprice
  \/ InvokeUnknown

Spec == Init /\ [][Next]_vars

\* the import folders belong to the FTP import: between two invocations an
\* extract may disappear from its folder (getLatestFile then finds no file)
DropExtract ==
  /\ \E k \in {"stock", "price", "material"} :
       /\ sources[k] # Blank
       /\ sources' = [sources EXCEPT ![k] = Blank]
  /\ UNCHANGED <<storage, runs, request, response, ncalls, repeated, probe, workers, writer>>

NextExtracts == Next \/ DropExtract

SpecExtracts == Init /\ [][NextExtracts]_vars

-----------------------------------------------------------------------------
(* The pipeline in order: the caller walks the six steps in their order and *)
(* may invoke the step it invoked last once more                            *)

Order ==
  <<"parse_merge", "ean_mapping", "pricing", "export_ean", "export_mediaworld",
    "export_eprice">>

Position(step) ==
  IF \E i \in 1..Len(Order) : Order[i] = step
  THEN CHOOSE i \in 1..Len(Order) : Order[i] = step
  ELSE 0

\* the configuration the caller sends: the steps that read none get none
PipelineFees(step) ==
  IF step \in {"pricing", "export_mediaworld", "export_eprice"}
  THEN {Txt(FeeA), Txt(FeeB)} ELSE {Blank}

InitPipeline ==
  /\ sources \in RichSources
  /\ Idle
  /\ probe = NoProbe

Advance ==
  /\ ncalls < MaxPipelineCalls
  /\ Position(request.step) < Len(Order)
  /\ LET step == Order[Position(request.step) + 1]
     IN \E rid \in RunIds, fc \in PipelineFees(step) : serve(rid, step, fc)

Retry ==
  /\ ncalls < MaxPipelineCalls
  /\ Position(request.step) > 0
  /\ \E rid \in RunIds, fc \in PipelineFees(request.step) : serve(rid, request.step, fc)

NextPipeline == Advance \/ Retry

SpecPipeline == InitPipeline /\ [][NextPipeline]_vars

-----------------------------------------------------------------------------
(* parse_merge alone, on extracts that also hold blank lines, rows without *)
(* a key and rows whose key no other extract knows                         *)

MergeMaterialRows ==
  MaterialRows \cup {MaterialRow("", "", << >>, ""),
                     MaterialRow("", "M6", E13, "Keyless"),
                     MaterialRow("A9", "M7", E13, "Orphan")}

MergeStockExtracts ==
  StockExtracts \cup {Txt(<<StockRow("", Num(9)), StockRow("A2", NumThenJunk(3)),
                             StockRow("A9", Num(1))>>)}

MergeSources ==
  [stock : MergeStockExtracts,
   price : PriceExtracts,
   material : {Txt(s) : s \in SeqsUpTo(MergeMaterialRows, MaxMergeRows)},
   mapping : {Blank}]

InitMerge ==
  /\ sources \in MergeSources
  /\ Idle
  /\ probe = NoProbe

NextMerge == InvokeParseMerge

SpecMerge == InitMerge /\ [][NextMerge]_vars

-----------------------------------------------------------------------------
(* Overlapping invocations.  Every await of a handler is a point where     *)
(* another invocation may run.  One invocation is taken in four steps: it  *)
(* loads what the step reads and computes, uploads what the step writes,   *)
(* reads the run record (the select of updateStepResult) and writes it     *)
(* back (the update of updateStepResult) before it answers.                *)

BothRuns == {"r1", "r2"}

OverlapSources ==
  [stock |-> Txt(<<StockRow("A1", Num(5)), StockRow("A2", Num(5))>>),
   price |-> Txt(<<PriceRow("A1", Num(10000), Num(9000), Num(0)),
                   PriceRow("A2", Garbage, Num(12000), Num(100))>>),
   material |-> Txt(<<MaterialRow("A1", "M1", E12, "Widget"),
                      MaterialRow("A2", "M3", << >>, "Gizmo")>>),
   mapping |-> Txt(<<MappingRow("M3", E12spaced)>>)]

\* the runs a worker gets invocations for: one caller drives run r1, the
\* other repeats an invocation of run r1 or drives run r2
Callers == [w1 |-> {"r1"}, w2 |-> {"r1", "r2"}]

InitOverlap ==
  /\ sources = OverlapSources
  /\ workers = [w \in Workers |-> IdleWorker]
  /\ writer = NoWriter
  /\ storage = EmptyStorage
  /\ runs = [r \in BothRuns |-> EmptyRun]
  /\ request = NoRequest
  /\ response = NoResponse
  /\ ncalls = 0
  /\ repeated = FALSE
  /\ probe = NoProbe

\* serve up to the first upload: the step has loaded its inputs and computed
Begin(w) ==
  /\ ncalls < MaxOverlapCalls
  /\ workers[w].pc \in {"idle", "done"}
  /\ \E rid \in Callers[w], step \in StepNames :
       \E fc \in PipelineFees(step) :
         LET out == RunStep(step, fc, sources, ArtifactView(storage, writer, rid))
             pc == IF out.success THEN "save"
                   ELSE IF out.result # Blank THEN "read" ELSE "done"
         IN workers' = [workers EXCEPT ![w] =
                          [pc |-> pc, run_id |-> rid, step |-> step, fee_config |-> fc,
                           out |-> Txt(out), snapshot |-> Blank,
                           response |-> IF pc = "done" THEN StepResponse(out)
                                        ELSE NoResponse]]
  /\ ncalls' = ncalls + 1
  /\ UNCHANGED <<sources, storage, runs, request, response, repeated, probe, writer>>

\* the uploads of the step
Save(w) ==
  /\ workers[w].pc = "save"
  /\ storage' = Uploaded(storage, workers[w].step, workers[w].out[1].storage)
  /\ writer' = WrittenBy(writer, workers[w].step, workers[w].run_id)
  /\ workers' = [workers EXCEPT ![w].pc = "read"]
  /\ UNCHANGED <<sources, runs, request, response, ncalls, repeated, probe>>

\* updateStepResult, line 55: the select
ReadRun(w) ==
  /\ workers[w].pc = "read"
  /\ workers' = [workers EXCEPT ![w].pc = "write",
                                ![w].snapshot = Txt(runs[workers[w].run_id])]
  /\ UNCHANGED <<sources, storage, runs, request, response, ncalls, repeated, probe, writer>>

\* a slip that is none: the update applied to the record as it is now
WriteRunGuarded(w) ==
  /\ workers[w].pc = "write"
  /\ runs' = [runs EXCEPT ![workers[w].run_id] =
                updateStepResult(@, workers[w].step, workers[w].out[1].result[1])]
  /\ workers' = [workers EXCEPT ![w].pc = "done",
                                ![w].response = StepResponse(workers[w].out[1])]
  /\ UNCHANGED <<sources, storage, request, response, ncalls, repeated, probe, writer>>

\* updateStepResult, lines 56-58: the update, computed from the record read,
\* and the answer of serve
WriteRun(w) ==
  /\ workers[w].pc = "write"
  /\ runs' = [runs EXCEPT ![workers[w].run_id] =
                updateStepResult(workers[w].snapshot[1], workers[w].step,
                                 workers[w].out[1].result[1])]
  /\ workers' = [workers EXCEPT ![w].pc = "done",
                                ![w].response = StepResponse(workers[w].out[1])]
  /\ UNCHANGED <<sources, storage, request, response, ncalls, repeated, probe, writer>>

NextOverlap ==
  \E w \in Workers : Begin(w) \/ Save(w) \/ ReadRun(w) \/ WriteRun(w)

SpecOverlap == InitOverlap /\ [][NextOverlap]_vars

-----------------------------------------------------------------------------
(* The utility functions on their own: each action applies one of them to   *)
(* an input drawn from a bounded set and records input and output           *)

ProbeAmounts == {0, 1, 25, 82, 100, 650, 9000, 10000}

ProbeFees ==
  [shippingCost : {0, 600}, feeDrev : {100, 105, 117}, feeMkt : {100, 108, 150},
   mediaworldPrepDays : {0}, epricePrepDays : {0}]

ProbeProducts ==
  {LoadProduct(ProductLine("A1", "M1", E12, "Widget", 5, lp, cbp, sur, Blank, Blank, Blank)) :
     lp \in ProbeAmounts, cbp \in ProbeAmounts, sur \in {0, 25}}

CodePrefixes == SeqsUpTo({"0", "4", " ", "-", "x"}, 2)

ProbeCodes ==
  {pre \o Rep(n, "7") \o suf :
     pre \in CodePrefixes, n \in 0..MaxPad, suf \in {<< >>, <<" ">>, <<"x">>}}

InitProbe ==
  /\ sources = [stock |-> Blank, price |-> Blank, material |-> Blank, mapping |-> Blank]
  /\ Idle
  /\ probe = NoProbe

ProbeForce99 ==
  /\ probe.fn = ""
  /\ \E c \in 0..MaxProbeCents :
       probe' = [fn |-> "toComma99Cents", arg |-> c,
                 res |-> [server |-> toComma99Cents(c), client |-> toComma99CentsClient(c)]]
  /\ UNCHANGED <<sources, storage, runs, request, response, ncalls, repeated, workers, writer>>

ProbePricing ==
  /\ probe.fn = ""
  /\ \E p \in ProbeProducts, fc \in ProbeFees :
       probe' = [fn |-> "PriceProduct", arg |-> [p |-> p, fc |-> fc],
                 res |-> [base |-> BaseCents(p),
                          vat |-> AfterVat(BaseCents(p), fc),
                          feeDrev |-> AfterFeeDrev(BaseCents(p), fc),
                          feeMkt |-> AfterFeeMkt(BaseCents(p), fc),
                          priced |-> PriceProduct(p, fc)]]
  /\ UNCHANGED <<sources, storage, runs, request, response, ncalls, repeated, workers, writer>>

ProbeNormalizeEAN ==
  /\ probe.fn = ""
  /\ \E raw \in ProbeCodes :
       probe' = [fn |-> "normalizeEAN", arg |-> raw,
                 res |-> [server |-> normalizeEAN(raw),
                          client |-> normalizeEANClient(raw),
                          serverAgain |-> normalizeEAN(normalizeEAN(raw).value),
                          clientAgain |-> normalizeEANClient(normalizeEANClient(raw).value)]]
  /\ UNCHANGED <<sources, storage, runs, request, response, ncalls, repeated, workers, writer>>

NextProbe == ProbeForce99 \/ ProbePricing \/ ProbeNormalizeEAN

SpecProbe == InitProbe /\ [][NextProbe]_vars

-----------------------------------------------------------------------------
(* The exports: the pipeline once, in order, on extracts whose rows differ  *)
(* in what the two marketplace exports look at, and the client-side check   *)
(* of a manufacturer code                                                   *)

E13b == <<"8">> \o E12
E13c == <<"9">> \o E12
Mpn40 == "M234567890123456789012345678901234567890"
Mpn45 == "M23456789012345678901234567890123456789012345"

ExportMaterialRows ==
  {MaterialRow("A1", "M1", E12, "Widget"),
   MaterialRow("A1", Mpn45, E14n, "Long"),
   MaterialRow("A3", Mpn40, E13b, "Forty"),
   MaterialRow("A2", "M2", E13c, "Cheap"),
   MaterialRow("A1", "", E13b, "Nameless")}

ExportSources ==
  [stock : {Txt(<<StockRow("A1", Num(5)), StockRow("A2", Num(4)), StockRow("A3", Num(2))>>)},
   price : {Txt(<<PriceRow("A1", Num(10000), Num(9000), Num(0)),
                  PriceRow("A2", Num(10), Num(0), Num(0)),
                  PriceRow("A3", Num(500), Garbage, Num(0))>>)},
   material : {Txt(s) : s \in SeqsUpTo(ExportMaterialRows, MaxRows)},
   mapping : {Blank}]

\* exportMediaworldCatalog, lines 125-150: the error of a manufacturer code,
\* "" when it has none; a row with an error is skipped (line 208)
SkuError(sku) ==
  IF sku = << >> \/ Trim(sku) = << >> THEN "SKU mancante"
  ELSE IF Len(sku) > MaxMpnLength THEN "SKU troppo lungo"
  ELSE IF "/" \in Range(sku) THEN "SKU contiene /"
  ELSE ""

ProbeSkus ==
  {<< >>, <<" ">>, <<"M", "1">>, <<"M", "/", "1">>}
    \cup {Rep(n, "M") : n \in {MaxMpnLength, MaxMpnLength + 1, MaxMpnLength + 5}}

InitExport ==
  /\ sources \in ExportSources
  /\ Idle
  /\ probe = NoProbe

ProbeSku ==
  /\ probe.fn = ""
  /\ \E sku \in ProbeSkus :
       probe' = [fn |-> "mediaworldSku", arg |-> sku, res |-> SkuError(sku)]
  /\ UNCHANGED <<sources, storage, runs, request, response, ncalls, repeated, workers, writer>>

NextExport == Advance \/ ProbeSku

SpecExport == InitExport /\ [][NextExport]_vars

-----------------------------------------------------------------------------
(* Properties of the utility functions *)

HalfUp(r, x, m100) == 100 * r - 50 <= x * m100 /\ x * m100 < 100 * r + 50

\* C2: the final sale price is force99(R(R(R((base + shipping) * 1.22) * feeA)
\* * feeB)) with base = bestPrice + surcharge if bestPrice > 0, else listPrice
\* if listPrice > 0, else 0, and R rounding half-up to whole cents; for base
\* 9000, shipping 600, fees 1.05 and 1.08 the values are 11712, 12298, 13282
\* and 13299, displayed "132,99".
C2_PricingChain ==
  probe.fn = "PriceProduct" =>
    LET p == probe.arg.p
        fc == probe.arg.fc
        r == probe.res
        base == IF p.CBP > 0 THEN p.CBP + p.Sur ELSE IF p.LP > 0 THEN p.LP ELSE 0
        final == r.priced.PFNum
    IN /\ r.base = base
       /\ HalfUp(r.vat, base + fc.shippingCost, 122)
       /\ HalfUp(r.feeDrev, r.vat, fc.feeDrev)
       /\ HalfUp(r.feeMkt, r.feeDrev, fc.feeMkt)
       /\ final % 100 = 99 /\ final >= r.feeMkt /\ final - r.feeMkt <= 99
       /\ r.priced.PF = Txt([neg |-> FALSE, int |-> final \div 100, frac |-> 99])
       /\ (base = 9000 /\ fc.shippingCost = 600 /\ fc.feeDrev = 105 /\ fc.feeMkt = 108)
            => /\ r.vat = 11712
               /\ r.feeDrev = 12298
               /\ r.feeMkt = 13282
               /\ final = 13299
               /\ r.priced.PF = Txt([neg |-> FALSE, int |-> 132, frac |-> 99])

\* the worked example of the specification has been priced
C2_Witness ==
  /\ probe.fn = "PriceProduct"
  /\ probe.arg.p.CBP = 9000 /\ probe.arg.p.Sur = 0
  /\ probe.arg.fc.shippingCost = 600
  /\ probe.arg.fc.feeDrev = 105 /\ probe.arg.fc.feeMkt = 108
  /\ probe.res.priced.PFNum = 13299

-----------------------------------------------------------------------------
(* Properties of the catalog *)

\* the lines of the products table whose code normalization accepts
AcceptedLines(lines) == {i \in 1..Len(lines) : normalizeEAN(lines[i].EAN).ok}

\* C3: after export_ean the catalog holds exactly one entry for each
\* normalized code among the accepted rows of the products table, never two
\* entries with one code, and the entry's final sale price is the greatest
\* final sale price among the accepted rows with that code.
C3_CatalogOnePerCode ==
  (storage.eanCatalog # Blank /\ storage.products # Blank) =>
    LET lines == storage.products[1].lines
        cat == storage.eanCatalog[1]
        acc == AcceptedLines(lines)
        code(i) == normalizeEAN(lines[i].EAN).value
        price(i) == LoadNum(lines[i].PFNum)
    IN /\ \A i, j \in 1..Len(cat) : cat[i].EAN = cat[j].EAN => i = j
       /\ {cat[k].EAN : k \in 1..Len(cat)} = {code(i) : i \in acc}
       /\ \A k \in 1..Len(cat) :
            /\ \E i \in acc : code(i) = cat[k].EAN /\ price(i) = LoadNum(cat[k].PFNum)
            /\ \A i \in acc : code(i) = cat[k].EAN => price(i) <= LoadNum(cat[k].PFNum)

\* two accepted rows with one code and different prices, the cheaper one
\* first, went into a catalog of one entry
C3_Witness ==
  /\ storage.eanCatalog # Blank /\ storage.products # Blank
  /\ request.step = "export_ean" /\ response.code = 200
  /\ LET lines == storage.products[1].lines
     IN /\ Len(lines) = 2
        /\ AcceptedLines(lines) = {1, 2}
        /\ normalizeEAN(lines[1].EAN).value = normalizeEAN(lines[2].EAN).value
        /\ LoadNum(lines[1].PFNum) < LoadNum(lines[2].PFNum)
        /\ Len(storage.eanCatalog[1]) = 1

\* C4: every code normalization accepts has exactly 13 digits; a digit string
\* is accepted only if, stripped of whitespace and hyphens, its length is 12,
\* 13, or 14 with a leading zero, and a digit string of any other length, in
\* particular one of 14 digits that does not start with 0, is rejected as an
\* invalid length.
C4_AcceptedHas13Digits ==
  probe.fn = "normalizeEAN" =>
    LET r == probe.res.server
        compact == Compact(Trim(probe.arg))
        wellFormed == \/ Len(compact) \in {12, 13}
                      \/ (Len(compact) = 14 /\ Head(compact) = "0")
    IN /\ r.ok => (Len(r.value) = 13 /\ AllDigits(r.value))
       /\ r.ok => (AllDigits(compact) /\ wellFormed)
       /\ (AllDigits(compact) /\ ~wellFormed) => (~r.ok /\ r.reason = "lunghezza")

-----------------------------------------------------------------------------
(* Properties of the orchestrator *)

\* a request was handled by this step
Handled == ncalls' = ncalls + 1

\* C5: whenever the invocation of a known step is answered with a non-success
\* response, a result with status failed and the error text is recorded under
\* steps[stepName] of the run record, and the response is the structured
\* error response.
C5_FailureIsRecorded ==
  (ncalls > 0 /\ request.step \in StepNames /\ response.code # 200) =>
    LET steps == runs[request.run_id].steps
    IN /\ response.code = 500
       /\ response.status = "error"
       /\ request.step \in DOMAIN steps
       /\ steps[request.step].status = "failed"
       /\ steps[request.step].error = response.error

\* C6: a known step invoked twice in a row for a run, with the same
\* configuration and the same extracts, leaves the artifacts, the step's
\* recorded result and the run's metrics as they were after the first of the
\* two invocations.
C6_EveryStepIdempotent ==
  [][(Handled /\ repeated' /\ request'.step \in StepNames) =>
       LET rid == request'.run_id
           s == request'.step
       IN /\ storage' = storage
          /\ runs'[rid].metrics = runs[rid].metrics
          /\ s \in DOMAIN runs[rid].steps => runs'[rid].steps[s] = runs[rid].steps[s]]_vars

\* C7: the pricing step invoked twice in succession with the same fee
\* configuration leaves the products table after the second invocation
\* identical to the table after the first.
C7_PricingIdempotent ==
  [][(Handled /\ repeated' /\ request'.step = "pricing") => storage' = storage]_vars

\* pricing has just been invoked a second time with the same configuration
\* and the table holds priced rows
C7_Witness ==
  /\ repeated
  /\ request.step = "pricing"
  /\ response.code = 200
  /\ storage.products # Blank
  /\ \E i \in 1..Len(storage.products[1].lines) : storage.products[1].lines[i].PFNum # Blank

Producer ==
  [ean_mapping |-> "parse_merge", pricing |-> "parse_merge", export_ean |-> "pricing",
   export_mediaworld |-> "export_ean", export_eprice |-> "export_ean"]

\* C9: a step invoked before the step that produces its upstream
\* table has run (ean_mapping or pricing before parse_merge, export_ean before
\* pricing, an export before export_ean) fails, records a failed result and
\* writes nothing.
C9_OutOfOrderFails ==
  [][(/\ Handled
      /\ request'.step \in DOMAIN Producer
      /\ Producer[request'.step] \notin DOMAIN runs[request'.run_id].steps) =>
       /\ response'.code = 500
       /\ storage' = storage
       /\ runs'[request'.run_id].steps[request'.step].status = "failed"]_vars

\* C10: an invocation whose step is not one of the six known steps is
\* answered with a 400 error and touches nothing: no extract, no artifact,
\* and the run record is as it was.
C10_UnknownStepRejected ==
  [][(Handled /\ request'.step \notin StepNames) =>
       /\ response'.code = 400
       /\ response'.status = "error"
       /\ storage' = storage
       /\ runs' = runs
       /\ sources' = sources]_vars

\* an unknown step was rejected on a run that already has a products table
\* and a recorded step
C10_Witness ==
  /\ request.step = "cleanup"
  /\ response = [code |-> 400, status |-> "error", error |-> "Unknown step"]
  /\ storage.products # Blank
  /\ "parse_merge" \in DOMAIN runs[request.run_id].steps

\* C11: parse_merge invoked while the stock, price or material extract is
\* absent is answered with a non-success response and writes nothing: the
\* store, with the products table persisted before, if any, is as it was.
C11_MissingExtractNoOutput ==
  [][(/\ Handled
      /\ request'.step = "parse_merge"
      /\ (sources.stock = Blank \/ sources.price = Blank \/ sources.material = Blank)) =>
       /\ response'.code = 500
       /\ response'.status = "error"
       /\ response'.error \in {"Stock file mancante", "Price file mancante",
                               "Material file mancante"}
       /\ storage' = storage]_vars

\* parse_merge failed on an absent price extract while a products table
\* written by an earlier invocation is in the store
C11_Witness ==
  /\ request.step = "parse_merge"
  /\ response = [code |-> 500, status |-> "error", error |-> "Price file mancante"]
  /\ sources.price = Blank
  /\ storage.products # Blank
  /\ storage.products[1].lines # << >>

-----------------------------------------------------------------------------
(* Properties of overlapping invocations *)

\* worker w has answered: its invocation recorded a successful result
Succeeded(w) ==
  /\ workers[w].pc = "done"
  /\ workers[w].snapshot # Blank
  /\ workers[w].out[1].success
  /\ workers[w].response.code = 200

\* workers w and v have both answered success for two different steps of one
\* run, and each read the run record before the other wrote it
BothReadFirst(w, v) ==
  /\ w # v
  /\ Succeeded(w) /\ Succeeded(v)
  /\ workers[w].run_id = workers[v].run_id
  /\ workers[w].step # workers[v].step
  /\ workers[v].step \notin DOMAIN workers[w].snapshot[1].steps
  /\ workers[w].step \notin DOMAIN workers[v].snapshot[1].steps

\* the run record is what `kept` wrote from the record it had read, and holds
\* neither the result nor the metrics of `lost`
LostUpdate(kept, lost) ==
  LET run == runs[workers[kept].run_id]
      result == workers[kept].out[1].result[1]
  IN /\ run = updateStepResult(workers[kept].snapshot[1], workers[kept].step, result)
     /\ workers[lost].step \notin DOMAIN run.steps
     /\ run.metrics = Merge(workers[kept].snapshot[1].metrics, result.metrics)

\* C12: the read-modify-write of the run record is unguarded: whenever two
\* invocations on one run have both read the record before either wrote it
\* and both have answered success, the record lacks the result and the
\* metrics of one of them (the one that wrote first).
C12_UnguardedRunRecord ==
  \A w, v \in Workers :
    BothReadFirst(w, v) => (LostUpdate(w, v) \/ LostUpdate(v, w))

\* both invocations answered success and the record of the run has lost the
\* result and a metric of the one that wrote first
C12_Witness ==
  \E w, v \in Workers :
    /\ BothReadFirst(w, v)
    /\ workers[w].step = "parse_merge"
    /\ workers[v].step = "ean_mapping"
    /\ "parse_merge" \notin DOMAIN runs[workers[w].run_id].steps
    /\ "products_total" \notin DOMAIN runs[workers[w].run_id].metrics
    /\ "ean_mapping" \in DOMAIN runs[workers[w].run_id].steps

\* the artifact a step loads first
Upstream ==
  [ean_mapping |-> "products", pricing |-> "products", export_ean |-> "products",
   export_mediaworld |-> "eanCatalog", export_eprice |-> "eanCatalog"]

\* worker w has just taken an invocation
Began(w) == workers[w].pc \in {"idle", "done"} /\ workers'[w] # workers[w]

\* C13: the artifacts are at one path shared by all runs: a step that finds
\* its upstream artifact written by a step of another run loads it as it
\* would its own run's and succeeds on it.
C13_SharedArtifactPath ==
  [][\A w \in Workers :
       (/\ Began(w)
        /\ workers'[w].step \in DOMAIN Upstream
        /\ writer[Upstream[workers'[w].step]] \notin {"", workers'[w].run_id}) =>
         /\ workers'[w].out[1] =
              RunStep(workers'[w].step, workers'[w].fee_config, sources, storage)
         /\ workers'[w].out[1].success
         /\ workers'[w].pc = "save"]_vars

\* run r1 merged its products table, run r2 overwrote it, and export_ean of
\* run r1 built its catalog from the table of run r2; every step of both
\* runs reported success
C13_Witness ==
  /\ \E w \in Workers :
       /\ Succeeded(w)
       /\ workers[w].run_id = "r1"
       /\ workers[w].step = "export_ean"
  /\ writer.products = "r2"
  /\ writer.eanCatalog = "r1"
  /\ "parse_merge" \in DOMAIN runs["r1"].steps
  /\ \A r \in BothRuns : \A k \in DOMAIN runs[r].steps \ {"current_step"} :
       runs[r].steps[k].status = "success"
  /\ \A w \in Workers : workers[w].pc = "done" /\ workers[w].response.code = 200

-----------------------------------------------------------------------------
(* Properties of parse_merge and ean_mapping *)

\* the material rows parse_merge considers: not blank, with a key
Considered(rows) == {i \in 1..Len(rows) : rows[i].Matnr # ""}

\* the keys of the stock index
StockKeys(rows) == {rows[i].Matnr : i \in 1..Len(rows)} \ {""}

\* C14: after a successful parse_merge the four skip counters add up to the
\* rows considered minus the rows kept, the reported total is the number of
\* rows considered, noStock counts the considered rows whose key the stock
\* index lacks, and no such row is kept.
C14_SkipCountersAddUp ==
  (request.step = "parse_merge" /\ response.code = 200) =>
    LET res == runs[request.run_id].steps["parse_merge"]
        material == sources.material[1]
        considered == Cardinality(Considered(material))
        kept == Len(storage.products[1].lines)
        keys == StockKeys(sources.stock[1])
    IN /\ SumSkipped(res.skipped) = considered - kept
       /\ res.products = kept
       /\ res.metrics.products_total = considered
       /\ res.metrics.products_processed = kept
       /\ res.skipped.noStock =
            Cardinality({i \in Considered(material) : material[i].Matnr \notin keys})
       /\ \A k \in 1..kept : storage.products[1].lines[k].Matnr \in keys

\* parse_merge succeeded on an extract with a row without a key, a row the
\* stock index lacks and a row that is kept
C14_Witness ==
  /\ request.step = "parse_merge"
  /\ response.code = 200
  /\ Len(sources.material[1]) = 3
  /\ Cardinality(Considered(sources.material[1])) = 2
  /\ runs[request.run_id].steps["parse_merge"].skipped.noStock = 1
  /\ runs[request.run_id].steps["parse_merge"].products = 1

-----------------------------------------------------------------------------
(* Properties of deduplication *)

\* the products table as the export loads it
TableRows == loadProductsTSV(storage.products[1])

\* the latest index of a non-empty set of indices
Latest(S) == CHOOSE i \in S : \A j \in S : j <= i

\* the rows the client-side normalization accepts
AcceptedByClient(rows) == {i \in 1..Len(rows) : normalizeEANClient(rows[i].EAN).ok}

\* the catalog of export_ean holds, of the accepted rows with the code and
\* the final price of an entry, the one seen last
ServerTieKeepsLater ==
  LET rows == TableRows
      cat == storage.eanCatalog[1]
  IN \A k \in 1..Len(cat) :
       LET ties == {i \in AcceptedLines(rows) :
                      /\ normalizeEAN(rows[i].EAN).value = cat[k].EAN
                      /\ rows[i].PFNum = LoadNum(cat[k].PFNum)}
       IN ties # {} => /\ cat[k].Matnr = rows[Latest(ties)].Matnr
                       /\ cat[k].MPN = rows[Latest(ties)].MPN

\* the same of the rows filterAndNormalizeForEAN keeps
ClientTieKeepsLater ==
  LET rows == TableRows
      kept == filterAndNormalizeForEAN(rows).kept
  IN \A k \in 1..Len(kept) :
       LET ties == {i \in AcceptedByClient(rows) :
                      /\ normalizeEANClient(rows[i].EAN).value = kept[k].EAN
                      /\ rows[i].PFNum = kept[k].PFNum}
       IN ties # {} => /\ kept[k].Matnr = rows[Latest(ties)].Matnr
                       /\ kept[k].MPN = rows[Latest(ties)].MPN

\* C15: of two or more accepted rows with one normalized code and equal final
\* sale prices the catalog retains the one that occurs later in the table,
\* in the export step as in the client-side deduplication.
C15_TieKeepsLater ==
  (storage.eanCatalog # Blank /\ storage.products # Blank) =>
    (ServerTieKeepsLater /\ ClientTieKeepsLater)

\* filterAndNormalizeForEAN: for every code, the rows of its group are the
\* row kept and the rows the duplicate entries of the discards reference,
\* each with its final price, one entry for each row not kept
ClientDiscardsLosers ==
  LET rows == TableRows
      out == filterAndNormalizeForEAN(rows)
      code(i) == normalizeEANClient(rows[i].EAN).value
      dups == {j \in 1..Len(out.discarded) : out.discarded[j].Motivo_scarto = "ean_duplicato"}
  IN /\ \A j \in dups :
          \E i \in AcceptedByClient(rows) : code(i) = out.discarded[j].EAN_originale
     /\ \A k \in 1..Len(out.kept) :
          LET group == {i \in AcceptedByClient(rows) : code(i) = out.kept[k].EAN}
              mine == {j \in dups : out.discarded[j].EAN_originale = out.kept[k].EAN}
              same(i, m, mpn, price) ==
                rows[i].Matnr = m /\ rows[i].MPN = mpn /\ rows[i].PFNum = price
          IN /\ Cardinality(mine) = Cardinality(group) - 1
             /\ \A i \in group :
                  Cardinality({i2 \in group : same(i2, rows[i].Matnr, rows[i].MPN,
                                                   rows[i].PFNum)}) =
                    Cardinality({j \in mine : same(i, out.discarded[j].Matnr,
                                                   out.discarded[j].ManufPartNr,
                                                   out.discarded[j].quoted)})
                    + (IF same(i, out.kept[k].Matnr, out.kept[k].MPN, out.kept[k].PFNum)
                       THEN 1 ELSE 0)

\* export_ean reports its discards as a count: the count covers, beside the
\* rows whose code is rejected, the k-1 losers of every group of k rows
ServerDiscardsLosers ==
  LET res == runs[request.run_id].steps["export_ean"]
  IN res.discarded = Len(TableRows) - Len(storage.eanCatalog[1])

\* C16: for every group of k >= 2 accepted rows with one normalized code the
\* deduplication reports exactly k-1 duplicates as discarded, each a row that
\* is not retained, with that row's final price, in the export step as in
\* the client-side deduplication.
C16_LosersReported ==
  (request.step = "export_ean" /\ response.code = 200) =>
    (ClientDiscardsLosers /\ ServerDiscardsLosers)

-----------------------------------------------------------------------------
(* Properties of normalization *)

\* the probed code without outer whitespace, inner whitespace and hyphens
ProbedCompact == Compact(Trim(probe.arg))

\* C17: a code of 12 digits is accepted with one zero put in front, 13
\* digits in all, and normalization is idempotent on what it accepts: the
\* value v of an accepted code is itself accepted with the value v; in the
\* export step as on the client side.
C17_PadAndIdempotent ==
  probe.fn = "normalizeEAN" =>
    /\ (AllDigits(ProbedCompact) /\ Len(ProbedCompact) = 12) =>
         /\ probe.res.server = Accepted(<<"0">> \o ProbedCompact)
         /\ probe.res.client = Accepted(<<"0">> \o ProbedCompact)
         /\ Len(probe.res.server.value) = 13
    /\ probe.res.server.ok =>
         (probe.res.serverAgain.ok /\ probe.res.serverAgain.value = probe.res.server.value)
    /\ probe.res.client.ok =>
         (probe.res.clientAgain.ok /\ probe.res.clientAgain.value = probe.res.client.value)

\* a code of 12 digits written with a hyphen and a trailing blank was padded
\* and its value normalized once more
C17_Witness ==
  /\ probe.fn = "normalizeEAN"
  /\ probe.arg = <<"4", "-">> \o Rep(11, "7") \o <<" ">>
  /\ probe.res.server.ok
  /\ probe.res.server.value = <<"0", "4">> \o Rep(11, "7")
  /\ probe.res.serverAgain = probe.res.server
  /\ probe.res.clientAgain = probe.res.client

\* C18: normalization rejects an empty or blank code as missing, rejects a
\* code that holds a non-digit after whitespace and hyphens are stripped as
\* non-numeric, and accepts a code of 14 digits with a leading zero as its
\* last 13 digits; in the export step as on the client side.
C18_RejectionsAnd14 ==
  probe.fn = "normalizeEAN" =>
    /\ Trim(probe.arg) = << >> =>
         /\ ~probe.res.server.ok /\ probe.res.server.reason = "EAN mancante"
         /\ ~probe.res.client.ok /\ probe.res.client.reason = "EAN mancante"
    /\ (Trim(probe.arg) # << >> /\ ~AllDigits(ProbedCompact)) =>
         /\ ~probe.res.server.ok /\ probe.res.server.reason = "EAN non numerico"
         /\ ~probe.res.client.ok
         /\ probe.res.client.reason = "EAN contiene caratteri non numerici"
    /\ (AllDigits(ProbedCompact) /\ Len(ProbedCompact) = 14 /\ Head(ProbedCompact) = "0") =>
         /\ probe.res.server = Accepted(Tail(ProbedCompact))
         /\ probe.res.client = Accepted(Tail(ProbedCompact))

-----------------------------------------------------------------------------
(* Properties of ean_mapping *)

\* the rows of the products table before and after the step
RowsBefore == storage.products[1].lines
RowsAfter == storage'.products[1].lines

\* ean_mapping has just answered success
Mapped == Handled /\ request'.step = "ean_mapping" /\ response'.code = 200

\* table `after` holds the rows of `before` in their order, a row with a code
\* untouched, a row without one changed in its code at most
OnlyEmptyCodesFilled(before, after) ==
  /\ Len(after) = Len(before)
  /\ \A i \in 1..Len(before) :
       /\ after[i] = [before[i] EXCEPT !.EAN = after[i].EAN]
       /\ before[i].EAN # << >> => after[i].EAN = before[i].EAN

\* the material rows as the pre-fill worker returns them
Prefilled ==
  PrefillMaterial(sources.material[1], PrefillMap(sources.mapping[1], EmptyIndex),
                  [updatedMaterial |-> << >>, counters |-> NoPrefillCounters]).updatedMaterial

\* C19: ean_mapping writes back the rows it loaded, in their order: no row is
\* removed, a row with a non-empty code keeps it, and nothing but the code of
\* a row without one changes; the pre-fill worker treats the material rows
\* the same way.
C19_MappingFrame ==
  [][Mapped =>
       /\ OnlyEmptyCodesFilled(RowsBefore, RowsAfter)
       /\ (sources.material # Blank /\ sources.mapping # Blank) =>
            OnlyEmptyCodesFilled(sources.material[1], Prefilled)]_vars

\* ean_mapping ran on a table with a row that has a code, and a mapping for
\* it, and a row that had none and got one
C19_Witness ==
  /\ request.step = "ean_mapping"
  /\ response.code = 200
  /\ ~repeated
  /\ sources.mapping # Blank
  /\ runs[request.run_id].steps["ean_mapping"].mapped = 1
  /\ \E i, j \in 1..Len(storage.products[1].lines) :
       /\ storage.products[1].lines[i].MPN = "M1"
       /\ storage.products[1].lines[i].EAN = E12
       /\ storage.products[1].lines[j].MPN = "M3"
       /\ storage.products[1].lines[j].EAN = E12spaced

\* the rows of the mapping file that map the manufacturer code mpn
MappingsOf(mpn) ==
  IF sources.mapping = Blank THEN {}
  ELSE {i \in 1..Len(sources.mapping[1]) :
          sources.mapping[1][i].mpn = mpn /\ sources.mapping[1][i].ean # << >>}

\* C20: ean_mapping counts each loaded row with an empty code and a
\* manufacturer code once: as mapped, and the row gets the mapped code, if
\* the mapping file maps its manufacturer code, as missing, and the code
\* stays empty, if not; mapped + missing is the number of such rows, also
\* when there is no mapping file.
C20_MappedPlusMissing ==
  [][Mapped =>
       LET need == {i \in 1..Len(RowsBefore) :
                      RowsBefore[i].EAN = << >> /\ RowsBefore[i].MPN # ""}
           found == {i \in need : MappingsOf(RowsBefore[i].MPN) # {}}
           res == runs'[request'.run_id].steps["ean_mapping"]
       IN /\ res.mapped = Cardinality(found)
          /\ res.missing = Cardinality(need \ found)
          /\ res.mapped + res.missing = Cardinality(need)
          /\ \A i \in found :
               \E k \in MappingsOf(RowsBefore[i].MPN) :
                 RowsAfter[i].EAN = sources.mapping[1][k].ean
          /\ \A i \in need \ found : RowsAfter[i].EAN = << >>]_vars

-----------------------------------------------------------------------------
(* Properties of the run metrics *)

\* C21: recording a step result merges the metrics of the step into the
\* metrics of the run: every key the step contributes holds the step's value
\* afterwards, also when the run had the key before, every other key keeps
\* its value, and no key is added or dropped beside these.
C21_MetricsShallowMerge ==
  [][(Handled /\ request'.step \in StepNames) =>
       LET rid == request'.run_id
           out == RunStep(request'.step, request'.fee_config, sources, storage)
           old == runs[rid].metrics
           new == runs'[rid].metrics
       IN IF out.result = Blank THEN new = old
          ELSE LET step == out.result[1].metrics
               IN /\ DOMAIN new = (DOMAIN old) \cup (DOMAIN step)
                  /\ \A k \in DOMAIN step : new[k] = step[k]
                  /\ \A k \in (DOMAIN old) \ (DOMAIN step) : new[k] = old[k]]_vars

\* the second ean_mapping contributed products_ean_mapped = 0 over the 1 of
\* the first, and the metric of parse_merge is still there
C21_Witness ==
  /\ repeated
  /\ request.step = "ean_mapping"
  /\ response.code = 200
  /\ sources.mapping # Blank
  /\ LET metrics == runs[request.run_id].metrics
     IN /\ metrics["products_ean_mapped"] = 0
        /\ metrics["products_total"] = 3
        /\ metrics["products_processed"] = 3

-----------------------------------------------------------------------------
(* Writes that fail.  The storage and database client reports a failure in  *)
(* the value it returns ({ data, error }); the reads of index.ts look at     *)
(* data (lines 46-51, 55, 171-172), the writes (lines 58, 150, 196, 334,     *)
(* 345, 408, 444) look at nothing.  A write that fails therefore either      *)
(* hands back an error nobody reads or throws into the catch of the step.    *)

\* the uploads of a step in the order of the code
UploadOrder(step) ==
  CASE step \in {"parse_merge", "ean_mapping", "pricing"} -> <<"products">>
    [] step = "export_ean" -> <<"eanCatalog", "catalogCsv">>
    [] step = "export_mediaworld" -> <<"mediaworldCsv">>
    [] step = "export_eprice" -> <<"epriceCsv">>

NoFault == [at |-> "", how |-> ""]

\* at most one write of an invocation fails: an upload or the update of the
\* run record ("run"); a step that fails before its uploads has only the
\* update of its failed result to lose
Faults(step, out) ==
  {NoFault, [at |-> "run", how |-> "returned"]}
    \cup (IF out.success
          THEN [at : Writes(step), how : {"returned", "thrown"}]
                 \cup {[at |-> "run", how |-> "thrown"]}
          ELSE {})

\* the files uploaded before the fault stopped or skipped one
WrittenDespite(step, out, fault) ==
  IF ~out.success THEN {}
  ELSE IF fault.at \in {"", "run"} THEN Writes(step)
  ELSE IF fault.how = "returned" THEN Writes(step) \ {fault.at}
  ELSE LET order == UploadOrder(step)
           k == CHOOSE i \in 1..Len(order) : order[i] = fault.at
       IN {order[i] : i \in 1..(k - 1)}

\* serve on a known step, one of its writes possibly failing
serveWithFaults(rid, step, fc) ==
  /\ LET out == RunStep(step, fc, sources, ArtifactView(storage, writer, rid))
     IN \E fault \in Faults(step, out) :
          LET written == WrittenDespite(step, out, fault)
              answered == IF out.success /\ fault.how = "thrown"
                          THEN Caught("write failed", storage)
                          ELSE out
          IN /\ storage' = [f \in DOMAIN storage |->
                              IF f \in written THEN out.storage[f] ELSE storage[f]]
             /\ writer' = [f \in DOMAIN writer |-> IF f \in written THEN rid ELSE writer[f]]
             /\ runs' = IF fault = [at |-> "run", how |-> "returned"] THEN runs
                        ELSE Recorded(runs, rid, step, answered)
             /\ response' = StepResponse(answered)
  /\ request' = [run_id |-> rid, step |-> step, fee_config |-> fc]
  /\ repeated' = (request = [run_id |-> rid, step |-> step, fee_config |-> fc])
  /\ ncalls' = ncalls + 1
  /\ UNCHANGED <<sources, probe, workers>>

FaultSources == {src \in SmallSources : src.stock # Blank /\ src.price # Blank}

InitFaults ==
  /\ sources \in FaultSources
  /\ Idle
  /\ probe = NoProbe

\* the steps in order, once each
AdvanceWithFaults ==
  /\ Position(request.step) < Len(Order)
  /\ LET step == Order[Position(request.step) + 1]
     IN \E rid \in RunIds, fc \in PipelineFees(step) : serveWithFaults(rid, step, fc)

NextFaults == AdvanceWithFaults

SpecFaults == InitFaults /\ [][NextFaults]_vars

-----------------------------------------------------------------------------
(* Properties of the marketplace exports *)

CatalogRead == loadEanCatalog(storage.eanCatalog[1])

Exported(step) ==
  /\ Handled
  /\ request'.step = step
  /\ response'.code = 200

\* C22: every row of the Mediaworld export has a manufacturer code that is not
\* empty and has at most 40 characters; a catalog row whose manufacturer code
\* has 45 characters is not emitted and is counted as skipped, whatever its
\* stock and prices; the client-side formatter reports an error, and so skips
\* the row, for a code that is empty or longer than 40 characters.
C22_MpnAtMost40 ==
  [][/\ Exported("export_mediaworld") =>
          LET rows == storage'.mediaworldCsv[1]
              long == SelectSeq(CatalogRead, LAMBDA p : Len(p.MPN) > MaxMpnLength)
              skipped == runs'[request'.run_id].steps["export_mediaworld"].skipped
          IN /\ \A i \in 1..Len(rows) : rows[i].sku # "" /\ Len(rows[i].sku) <= MaxMpnLength
             /\ \A i \in 1..Len(long) : \A j \in 1..Len(rows) : rows[j].sku # long[i].MPN
             /\ skipped >= Len(long)
             /\ Len(rows) + skipped = Len(CatalogRead)
     /\ probe'.fn = "mediaworldSku" =>
          (probe'.res = "" => probe'.arg # << >> /\ Len(probe'.arg) <= MaxMpnLength)]_vars

\* the catalog held a row with a code of 45 characters, stock and prices in
\* order, and one with a code of 40: the first was skipped, the second emitted
C22_Witness ==
  /\ request.step = "export_mediaworld"
  /\ response.code = 200
  /\ \E i \in 1..Len(CatalogRead) :
       /\ CatalogRead[i].MPN = Mpn45
       /\ CatalogRead[i].Stock > 0
       /\ CatalogRead[i].LPF # Blank
       /\ CatalogRead[i].PFNum > 0
  /\ Len(storage.mediaworldCsv[1]) = 1
  /\ storage.mediaworldCsv[1][1].sku = Mpn40
  /\ runs[request.run_id].steps["export_mediaworld"].skipped = 1
  /\ probe.fn = "mediaworldSku"
  /\ Len(probe.arg) = MaxMpnLength + 5
  /\ probe.res = "SKU troppo lungo"

\* C23: every row of the Mediaworld export has a product code of 12 to 14
\* digits and nothing else, stock above 0, a list price with fee that is
\* present and above 0, and a final sale price that is present and lies
\* between 1.00 and 100000.00 (100 and 10000000 cents).
C23_EmittedRowsValid ==
  storage.mediaworldCsv # Blank =>
    \A i \in 1..Len(storage.mediaworldCsv[1]) :
      LET row == storage.mediaworldCsv[1][i]
      IN /\ Len(row.productId) \in 12..14
         /\ AllDigits(row.productId)
         /\ row.quantity > 0
         /\ row.price # Blank
         /\ row.price[1] > 0
         /\ row.discountPrice >= 100
         /\ row.discountPrice <= 10000000

\* C24: export_eprice emits a catalog row if and only if its product code and
\* its manufacturer code are not empty, its stock is above 0 and its final
\* price is present: the rows written are those catalog rows, in their order;
\* the emitted and the skipped counts it records add up to the number of
\* catalog rows.
C24_EpriceEmitsIff ==
  [][Exported("export_eprice") =>
       LET rows == storage'.epriceCsv[1]
           due == SelectSeq(CatalogRead,
                            LAMBDA p : /\ p.EAN # << >>
                                       /\ p.MPN # ""
                                       /\ p.Stock > 0
                                       /\ p.PFNum # 0)
           result == runs'[request'.run_id].steps["export_eprice"]
       IN /\ Len(rows) = Len(due)
          /\ \A i \in 1..Len(due) :
               /\ rows[i].EAN = due[i].EAN
               /\ rows[i].SKU = due[i].MPN
               /\ rows[i].Quantita = due[i].Stock
               /\ rows[i].Prezzo = due[i].PF
          /\ result.rows = Len(rows)
          /\ result.rows + result.skipped = Len(CatalogRead)
          /\ runs'[request'.run_id].metrics["eprice_export_rows"] = result.rows
          /\ runs'[request'.run_id].metrics["eprice_export_skipped"] = result.skipped]_vars

\* a catalog of two rows, the one without a manufacturer code skipped, the
\* other emitted
C24_Witness ==
  /\ request.step = "export_eprice"
  /\ response.code = 200
  /\ Len(CatalogRead) = 2
  /\ \E i \in 1..2 : CatalogRead[i].MPN = "" /\ CatalogRead[i].EAN # << >>
  /\ Len(storage.epriceCsv[1]) = 1
  /\ storage.epriceCsv[1][1].SKU # ""
  /\ runs[request.run_id].steps["export_eprice"].skipped = 1

-----------------------------------------------------------------------------
(* Properties of the join of parse_merge *)

MergeStock == StockIndex(sources.stock[1], EmptyIndex)

MergePrice == PriceIndex(sources.price[1], EmptyIndex)

\* the considered material rows that pass the first n filters
Passing(n) ==
  {i \in Considered(sources.material[1]) :
     LET m == sources.material[1][i].Matnr
     IN /\ n >= 1 => m \in DOMAIN MergeStock
        /\ n >= 2 => m \in DOMAIN MergePrice
        /\ n >= 3 => MergeStock[m] >= 2
        /\ n >= 4 => (MergePrice[m].lp > 0 \/ MergePrice[m].cbp > 0)}

\* C25: parse_merge keeps a material row if and only if its key is in the
\* stock index and in the price index, its stock is at least 2 and its list
\* price or its best price is positive; the kept rows are written in their
\* order; a rejected row is counted once, by the counter of the first filter
\* it fails in the order noStock, noPrice, lowStock, noValid.
C25_FirstFailingFilter ==
  (request.step = "parse_merge" /\ response.code = 200) =>
    LET res == runs[request.run_id].steps["parse_merge"]
        material == sources.material[1]
        lines == storage.products[1].lines
        due == SelectSeq([i \in 1..Len(material) |-> [row |-> material[i], at |-> i]],
                         LAMBDA x : x.at \in Passing(4))
    IN /\ Len(lines) = Len(due)
       /\ \A k \in 1..Len(due) :
            /\ lines[k].Matnr = due[k].row.Matnr
            /\ lines[k].MPN = due[k].row.ManufPartNr
            /\ lines[k].Desc = due[k].row.ShortDescription
       /\ res.skipped.noStock = Cardinality(Passing(0) \ Passing(1))
       /\ res.skipped.noPrice = Cardinality(Passing(1) \ Passing(2))
       /\ res.skipped.lowStock = Cardinality(Passing(2) \ Passing(3))
       /\ res.skipped.noValid = Cardinality(Passing(3) \ Passing(4))

\* three rows: one whose key the stock index lacks, one whose key the stock
\* index holds with stock 1 and the price index lacks (counted as noPrice,
\* not as lowStock), and one that is kept
C25_Witness ==
  /\ request.step = "parse_merge"
  /\ response.code = 200
  /\ Cardinality(Considered(sources.material[1])) = 3
  /\ \E i \in Passing(1) \ Passing(2) : MergeStock[sources.material[1][i].Matnr] < 2
  /\ runs[request.run_id].steps["parse_merge"].skipped =
       [noStock |-> 1, noPrice |-> 1, lowStock |-> 0, noValid |-> 0]
  /\ Len(storage.products[1].lines) = 1

\* the last row of a non-empty extract that bears the key m
LastRow(rows, m) == rows[Latest({i \in 1..Len(rows) : rows[i].Matnr = m})]

\* what the claim has a numeric field taken as: its number when the text is
\* one, 0 otherwise
TakenAs(t) == IF t.digits # Blank /\ ~t.junk THEN t.digits[1] ELSE 0

\* C26: the stock index and the price index hold, for every key that occurs
\* in the extract, the values of the last row with that key, a malformed
\* numeric value taken as 0; parse_merge on three present extracts succeeds
\* whatever their rows hold.
C26_IndexTotalLastWins ==
  request.step = "parse_merge" =>
    /\ response.code = 200
    /\ DOMAIN MergeStock = StockKeys(sources.stock[1])
    /\ \A m \in DOMAIN MergeStock :
         MergeStock[m] = TakenAs(LastRow(sources.stock[1], m).ExistingStock)
    /\ DOMAIN MergePrice = StockKeys(sources.price[1])
    /\ \A m \in DOMAIN MergePrice :
         LET r == LastRow(sources.price[1], m)
         IN MergePrice[m] = [lp |-> TakenAs(r.ListPrice), cbp |-> TakenAs(r.CustBestPrice),
                             sur |-> TakenAs(r.Surcharge)]
    /\ \A k \in 1..Len(storage.products[1].lines) :
         LET line == storage.products[1].lines[k]
         IN line.Stock = TakenAs(LastRow(sources.stock[1], line.Matnr).ExistingStock)

-----------------------------------------------------------------------------
(* Properties of the list price with fee *)

\* num * fees <= n * 10000 * scale.  num * fees may leave the 32-bit
\* integers, so it is compared as tens * 10000 + units.
NotBelow(n, num, fees, scale) ==
  LET tens == (num \div 10000) * fees + ((num % 10000) * fees) \div 10000
      units == ((num % 10000) * fees) % 10000
  IN tens < n * scale \/ (tens = n * scale /\ units = 0)

\* n is the ceiling of num * fees / (10000 * scale): the whole number with
\* (n - 1) * 10000 * scale < num * fees <= n * 10000 * scale
IsCeiling(n, num, fees, scale) ==
  NotBelow(n, num, fees, scale) /\ ~NotBelow(n - 1, num, fees, scale)

\* C27: the list price with fee is, when the list price is positive and not
\* below a positive best price, the ceiling of (listPrice + shipping) * 1.22 *
\* feeA * feeB in whole currency units, computed without rounding to cents in
\* between; when the best price is positive and the list price is not
\* positive or below it, the greater of the ceiling of (bestPrice * 1.25 +
\* shipping) * 1.22 * feeA * feeB and the ceiling of the final sale price *
\* 1.25; blank when neither price is positive.
C27_ListPriceWithFee ==
  probe.fn = "PriceProduct" =>
    LET p == probe.arg.p
        fc == probe.arg.fc
        lpf == probe.res.priced.LPF
        final == probe.res.priced.PFNum
        fees == fc.feeDrev * fc.feeMkt
        override == p.CBP > 0 /\ (p.LP <= 0 \/ p.LP < p.CBP)
    IN /\ (p.LP > 0 /\ ~override) =>
            /\ lpf # Blank
            /\ IsCeiling(lpf[1], (p.LP + fc.shippingCost) * 122, fees, 10000)
       /\ override =>
            /\ lpf # Blank
            \* not below either ceiling, and equal to one of them
            /\ NotBelow(lpf[1], (p.CBP * 125 + fc.shippingCost * 100) * 122, fees, 1000000)
            /\ final * 125 <= 10000 * lpf[1]
            /\ \/ IsCeiling(lpf[1], (p.CBP * 125 + fc.shippingCost * 100) * 122, fees, 1000000)
               \/ 10000 * (lpf[1] - 1) < final * 125
       /\ (p.LP <= 0 /\ p.CBP <= 0) => lpf = Blank

\* both routes priced where they differ from their neighbours: the normal
\* route at 0.82 * 1.22 = 1.0004, whose ceiling is 2 while the chain rounded
\* to cents gives 1.00, and the override route decided by the final price
C27_Witness ==
  /\ probe.fn = "PriceProduct"
  /\ \/ /\ probe.arg.p.LP = 82 /\ probe.arg.p.CBP = 0
        /\ probe.arg.fc = [shippingCost |-> 0, feeDrev |-> 100, feeMkt |-> 100,
                           mediaworldPrepDays |-> 0, epricePrepDays |-> 0]
        /\ probe.res.priced.LPF = Txt(2)
     \/ /\ probe.arg.p.LP = 0 /\ probe.arg.p.CBP = 9000 /\ probe.arg.p.Sur = 0
        /\ probe.arg.fc.shippingCost = 600
        /\ probe.arg.fc.feeDrev = 105 /\ probe.arg.fc.feeMkt = 108
        /\ probe.res.priced.PFNum = 13299
        /\ probe.res.priced.LPF = Txt(167)

\* C28: after pricing, every row whose list price with fee is not blank has a
\* list price with fee (whole currency units) that is not below its final
\* sale price (cents), on the normal and on the override route.
C28_ListPriceNotBelowFinal ==
  (probe.fn = "PriceProduct" /\ probe.res.priced.LPF # Blank) =>
    100 * probe.res.priced.LPF[1] >= probe.res.priced.PFNum

-----------------------------------------------------------------------------
(* Properties of persistence *)

\* C29: whenever the invocation of a step is answered with success, every
\* artifact of the step is in the bucket as the step computed it and the run
\* record holds a result of the step with status success; in particular an
\* invocation one of whose writes failed is not answered with success.
C29_SuccessMeansPersisted ==
  [][(Handled /\ request'.step \in StepNames /\ response'.code = 200) =>
       LET step == request'.step
           rid == request'.run_id
           out == RunStep(step, request'.fee_config, sources, storage)
       IN /\ \A f \in Writes(step) : storage'[f] # Blank /\ storage'[f] = out.storage[f]
          /\ step \in DOMAIN runs'[rid].steps
          /\ runs'[rid].steps[step].status = "success"
          /\ runs'[rid].steps[step] = out.result[1]]_vars

\* C30: the server-side and the client-side normalizeEAN accept the same
\* codes and return the same normalized value for every code they accept.
C30_ServerClientAgree ==
  probe.fn = "normalizeEAN" =>
    /\ probe.res.server.ok = probe.res.client.ok
    /\ probe.res.server.ok => probe.res.server.value = probe.res.client.value

====
